---- MODULE Spec2Model ----
(***************************************************************************)
(* Verification model of dylarcher/tokenize: the layer orchestrator        *)
(* (src/commands/tokens.js), the watch workflow (src/cli.js) and the tier  *)
(* builders (src/generators/*.js).                                         *)
(*                                                                         *)
(* The module holds several specifications over one list of variables;     *)
(* each specification's Init pins the variables of the other parts to      *)
(* their idle values and its actions leave them unchanged.                 *)
(***************************************************************************)
EXTENDS Integers, Sequences, FiniteSets, TLC

VARIABLES
    \* ---- tokens.js (orchestrator process) ----
    argv,          \* parsed arguments: [layers, all, force] (parseArgs)
    dryRun,        \* -N / --dry-run
    outputFormats, \* config.outputFormats as the generators read it
    baseJson,      \* content of <outDir>/base.json (the scanned-values document)
    files,         \* content of <outDir>/<layer>.json for every layer
    files0,        \* history: files when the process started
    pc,            \* position of main/generateLayers
    layers,        \* the argument of generateLayers
    toGenerate,    \* generateLayers: closure in dependency order
    layersToRun,   \* generateLayers: the layers that will be run
    idx,           \* generateLayers: position of the for-loop over layersToRun
    generated,     \* generateLayers: Set of layers whose runLayer resolved
    child,         \* the spawned generator process (a layer) or NoChild
    spawnLog,      \* history: one record per spawn of a generator
    closeLog,      \* history: one record per generator that closed or errored
    errorMsg,      \* the error caught by main, or NoError
    exitCode,      \* exit status of the orchestrator, or Running
    \* ---- cli.js runWatch ----
    now,           \* wall clock, in ms
    timers,        \* the event loop's pending timeouts: set of [id, at]
    nextTimerId,   \* the id the next setTimeout returns
    debounceTimer, \* runWatch: let debounceTimer
    isBuilding,    \* runWatch: let isBuilding
    activeRuns,    \* pipeline runs (runBundlePipeline calls) in flight
    alive,         \* the watcher process has not exited
    evLog,         \* history: change notifications, run starts and run ends
    \* ---- generators/*.js (tier builders) ----
    gpc,           \* position of the three-step build
    scan,          \* the scanned-values document, abstracted
    primitives,    \* primitives.json: [color, tokens]
    semantic,      \* semantic.json: set of tokens [path, isRef, target]
    components,    \* components.json: set of tokens [path, isRef, target]
    \* ---- commands/diff.js ----
    dpc,           \* position of the comparison of one layer
    refTokens,     \* JSON.parse of the reference file
    genTokens,     \* JSON.parse of the generated file
    refMap,        \* flattenTokens(refTokens)
    genMap,        \* flattenTokens(genTokens)
    report,        \* compareTokenMaps(genMap, refMap, layer.name)
    \* ---- functions checked on their own ----
    fpc,           \* "call" before the function is applied, "return" after
    fin,           \* the argument
    fout,          \* the result
    \* ---- commands/validate.js ----
    vpc,           \* position of the main execution
    vargs,         \* [strict, dryRun, dirExists]: --strict, --dry-run, the input directory exists
    dir,           \* the .json files of the input directory: name -> content
    tokenFiles,    \* const tokenFiles
    allPaths,      \* const allPaths
    vidx,          \* position of the loop "for (const file of tokenFiles)" that validates
    reports,       \* const reports
    written,       \* the report file has been written
    vexit,         \* exit status of the validate process, or Running
    \* ---- cli.js runBundlePipeline ----
    bpc,           \* position of main/runBundlePipeline
    bargs,         \* [directory, passArguments] as parseArguments returns them
    bstep,         \* the step of the pipeline that is awaited or comes next (1..5)
    bchild,        \* the step whose child process is running, or 0
    blog,          \* history: the console lines, spawns and closes of the run
    bexit          \* exit status of the cli process, or Running

orchVars == <<argv, dryRun, outputFormats, baseJson, files, files0, pc, layers,
              toGenerate, layersToRun, idx, generated, child, spawnLog,
              closeLog, errorMsg, exitCode>>
watchVars == <<now, timers, nextTimerId, debounceTimer, isBuilding, activeRuns,
               alive, evLog>>
genVars == <<gpc, scan, primitives, semantic, components>>
diffVars == <<dpc, refTokens, genTokens, refMap, genMap, report>>
fnVars == <<fpc, fin, fout>>
valVars == <<vpc, vargs, dir, tokenFiles, allPaths, vidx, reports, written, vexit>>
bundleVars == <<bpc, bargs, bstep, bchild, blog, bexit>>
auxVars == <<diffVars, fnVars, valVars, bundleVars>>
restOfDiff == <<orchVars, watchVars, genVars, fnVars, valVars, bundleVars>>
restOfFn == <<orchVars, watchVars, genVars, diffVars, valVars, bundleVars>>
restOfVal == <<orchVars, watchVars, genVars, diffVars, fnVars, bundleVars>>
restOfBundle == <<orchVars, watchVars, genVars, diffVars, fnVars, valVars>>
vars == <<orchVars, watchVars, genVars, auxVars>>

(***************************************************************************)
(* Sequence helpers                                                        *)
(***************************************************************************)
Range(s) == {s[i] : i \in 1..Len(s)}

Includes(s, x) == x \in Range(s)

SeqsUpTo(S, n) == UNION {[1..k -> S] : k \in 0..n}

RECURSIVE Filter(_, _)
Filter(s, keep) ==
    IF s = <<>> THEN <<>>
    ELSE IF Head(s) \in keep THEN <<Head(s)>> \o Filter(Tail(s), keep)
    ELSE Filter(Tail(s), keep)

(***************************************************************************)
(* Part 1: the layer orchestrator, src/commands/tokens.js                  *)
(***************************************************************************)
MaxRequest == 2

LAYERS == <<"primitives", "semantic", "components">>

Layer == Range(LAYERS)

layerDependencies ==
    [l \in Layer |->
        CASE l = "primitives" -> <<>>
          [] l = "semantic" -> <<"primitives">>
          [] l = "components" -> <<"semantic">>]

\* <layer>.json does not exist / holds what JSON.parse rejects.
Absent == [tier |-> "", of |-> "absent"]
Corrupt == [tier |-> "", of |-> "corrupt"]
\* base.json does not exist.
NoBase == "absent"
NoChild == "none"
Error(kind, l, deps, code) == [kind |-> kind, layer |-> l, deps |-> deps, code |-> code]
NoError == Error("none", NoChild, <<>>, 0)
Running == -1

\* Two scanned-values documents that yield different primitive trees.
Docs == {"docA", "docB"}

\* What primitives.js writes to primitives.json for a document.
PrimitivesJson(doc) == [tier |-> "primitives", of |-> doc]

\* What semantic.js writes for the primitives.json it read.
SemanticJson(prim) == [tier |-> "semantic", of |-> prim.of]

\* What components.js writes: a static catalogue, nothing is read.
ComponentsJson == [tier |-> "components", of |-> "catalog"]

\* A components.json of another version of the catalogue.
OldComponentsJson == [tier |-> "components", of |-> "old-catalog"]

\* The generators write <layer>.json only if "json" is among the formats.
WritesJson(formats) == "json" \in formats

\* primitives.js: exit 1 without base.json.
RunPrimitives(fs, base, formats) ==
    IF base = NoBase
    THEN [code |-> 1, files |-> fs]
    ELSE [code |-> 0,
          files |-> IF WritesJson(formats)
                    THEN [fs EXCEPT !["primitives"] = PrimitivesJson(base)]
                    ELSE fs]

\* semantic.js: exit 1 without primitives.json, a throw on an unparsable one.
RunSemantic(fs, formats) ==
    IF fs["primitives"] \in {Absent, Corrupt}
    THEN [code |-> 1, files |-> fs]
    ELSE [code |-> 0,
          files |-> IF WritesJson(formats)
                    THEN [fs EXCEPT !["semantic"] = SemanticJson(fs["primitives"])]
                    ELSE fs]

\* components.js: exit 1 without semantic.json; the file is never read.
RunComponents(fs, formats) ==
    IF fs["semantic"] = Absent
    THEN [code |-> 1, files |-> fs]
    ELSE [code |-> 0,
          files |-> IF WritesJson(formats)
                    THEN [fs EXCEPT !["components"] = ComponentsJson]
                    ELSE fs]

RunGenerator(l, fs, base, formats) ==
    CASE l = "primitives" -> RunPrimitives(fs, base, formats)
      [] l = "semantic" -> RunSemantic(fs, formats)
      [] l = "components" -> RunComponents(fs, formats)

\* checkDependencies: the dependencies whose output file does not exist.
checkDependencies(l, fs) ==
    Filter(layerDependencies[l], {d \in Layer : fs[d] = Absent})

RECURSIVE addWithDependencies(_, _)
RECURSIVE addDependencies(_, _)
addWithDependenciesMutant(tg, l) ==
    IF Includes(tg, l) THEN tg
    ELSE addDependencies(Append(tg, l), layerDependencies[l])

\* generateLayers.addWithDependencies: depth first, dependencies first.
addWithDependencies(tg, l) ==
    IF Includes(tg, l) THEN tg
    ELSE Append(addDependencies(tg, layerDependencies[l]), l)

\* the `for (const dep of deps)` loop of addWithDependencies
addDependencies(tg, deps) ==
    IF deps = <<>> THEN tg
    ELSE addDependencies(addWithDependencies(tg, Head(deps)), Tail(deps))

RECURSIVE ToGenerate(_, _)
ToGenerateMutant(tg, ls) ==
    IF ls = <<>> THEN tg
    ELSE ToGenerate(Append(tg, Head(ls)), Tail(ls))

\* the `for (const layer of layers)` loop of generateLayers
ToGenerate(tg, ls) ==
    IF ls = <<>> THEN tg
    ELSE ToGenerate(addWithDependencies(tg, Head(ls)), Tail(ls))

ShouldRunMutant(l, ls, fs) == fs[l] = Absent

\* the filter of generateLayers when --force is not given
ShouldRun(l, ls, fs) == fs[l] = Absent \/ Includes(ls, l)

LayersToRunMutant(tg, ls, frc, fs) ==
    Filter(tg, {l \in Layer : ShouldRun(l, ls, fs)})

\* const layersToRun = force ? toGenerate : toGenerate.filter(...)
LayersToRun(tg, ls, frc, fs) ==
    IF frc THEN tg
    ELSE Filter(tg, {l \in Layer : ShouldRun(l, ls, fs)})

\* the guard of the throw in the loop of generateLayers
DependencyGuard(missing, gen) == missing # <<>> /\ missing[1] \notin gen

ResolvedMutant(code) == TRUE

\* child.on("close"): runLayer resolves on code 0 and rejects otherwise.
Resolved(code) == code = 0

IdleWatch ==
    /\ now = 0
    /\ timers = {}
    /\ nextTimerId = 1
    /\ debounceTimer = 0
    /\ isBuilding = FALSE
    /\ activeRuns = 0
    /\ alive = TRUE
    /\ evLog = <<>>

IdleGen ==
    /\ gpc = "idle"
    /\ scan = <<>>
    /\ primitives = <<>>
    /\ semantic = {}
    /\ components = {}

IdleDiff ==
    /\ dpc = "idle"
    /\ refTokens = <<>>
    /\ genTokens = <<>>
    /\ refMap = <<>>
    /\ genMap = <<>>
    /\ report = <<>>

IdleFn ==
    /\ fpc = "idle"
    /\ fin = <<>>
    /\ fout = <<>>

IdleVal ==
    /\ vpc = "idle"
    /\ vargs = <<>>
    /\ dir = <<>>
    /\ tokenFiles = <<>>
    /\ allPaths = {}
    /\ vidx = 0
    /\ reports = <<>>
    /\ written = FALSE
    /\ vexit = Running

IdleBundle ==
    /\ bpc = "idle"
    /\ bargs = <<>>
    /\ bstep = 0
    /\ bchild = 0
    /\ blog = <<>>
    /\ bexit = Running

IdleAux == IdleDiff /\ IdleFn /\ IdleVal /\ IdleBundle

IdleOrch ==
    /\ argv = [layers |-> <<>>, all |-> FALSE, force |-> FALSE]
    /\ dryRun = FALSE
    /\ outputFormats = {}
    /\ baseJson = NoBase
    /\ files = [l \in Layer |-> Absent]
    /\ files0 = [l \in Layer |-> Absent]
    /\ pc = "idle"
    /\ layers = <<>>
    /\ toGenerate = <<>>
    /\ layersToRun = <<>>
    /\ idx = 0
    /\ generated = {}
    /\ child = NoChild
    /\ spawnLog = <<>>
    /\ closeLog = <<>>
    /\ errorMsg = NoError
    /\ exitCode = Running

\* The output directory as the process may find it.
InitialFiles ==
    {f \in [Layer -> {Absent, Corrupt, OldComponentsJson, ComponentsJson}
                     \cup {PrimitivesJson(d) : d \in Docs}
                     \cup {SemanticJson(PrimitivesJson(d)) : d \in Docs}] :
        /\ f["primitives"] \in {Absent, Corrupt} \cup {PrimitivesJson(d) : d \in Docs}
        /\ f["semantic"] \in {Absent} \cup {SemanticJson(PrimitivesJson(d)) : d \in Docs}
        /\ f["components"] \in {Absent, OldComponentsJson, ComponentsJson}}

InitTokens ==
    /\ argv \in [layers : SeqsUpTo(Layer, MaxRequest), all : BOOLEAN, force : BOOLEAN]
    /\ dryRun \in BOOLEAN
    /\ outputFormats \in {{"json", "scss", "css"}, {"scss", "css"}}
    /\ baseJson \in {NoBase} \cup Docs
    /\ files \in InitialFiles
    /\ files0 = files
    /\ pc = "main"
    /\ layers = <<>>
    /\ toGenerate = <<>>
    /\ layersToRun = <<>>
    /\ idx = 0
    /\ generated = {}
    /\ child = NoChild
    /\ spawnLog = <<>>
    /\ closeLog = <<>>
    /\ errorMsg = NoError
    /\ exitCode = Running
    /\ IdleWatch
    /\ IdleGen
    /\ IdleAux

Exit(code, err) ==
    /\ pc' = "exited"
    /\ exitCode' = code
    /\ errorMsg' = err

\* main, no layer given and no --all: usage and exit 1.
MainNoLayers ==
    /\ pc = "main"
    /\ ~argv.all /\ argv.layers = <<>>
    /\ Exit(1, NoError)
    /\ UNCHANGED <<argv, dryRun, outputFormats, baseJson, files, files0, layers,
                   toGenerate, layersToRun, idx, generated, child, spawnLog, closeLog>>
    /\ UNCHANGED <<watchVars, genVars, auxVars>>

ReturnsBeforeLoopMutant(run, dry) == run = <<>>

\* generateLayers returns before its for-loop: nothing to run, or --dry-run
ReturnsBeforeLoop(run, dry) == run = <<>> \/ dry

\* main calls generateLayers, which runs up to its for-loop.
GenerateLayers ==
    /\ pc = "main"
    /\ argv.all \/ argv.layers # <<>>
    /\ LET ls == IF argv.all THEN LAYERS ELSE argv.layers
           tg == ToGenerate(<<>>, ls)
           run == LayersToRun(tg, ls, argv.force, files)
       IN /\ layers' = ls
          /\ toGenerate' = tg
          /\ layersToRun' = run
          /\ idx' = 1
          /\ IF ReturnsBeforeLoop(run, dryRun)
             THEN Exit(0, NoError)
             ELSE /\ pc' = "loop"
                  /\ UNCHANGED <<exitCode, errorMsg>>
    /\ UNCHANGED <<argv, dryRun, outputFormats, baseJson, files, files0, generated,
                   child, spawnLog, closeLog>>
    /\ UNCHANGED <<watchVars, genVars, auxVars>>

\* One turn of the loop up to the await: the dependency check, then the
\* throw or the spawn of the generator.
LoopStep ==
    /\ pc = "loop"
    /\ child = NoChild
    /\ idx <= Len(layersToRun)
    /\ LET l == layersToRun[idx]
           missing == checkDependencies(l, files)
       IN IF DependencyGuard(missing, generated)
          THEN /\ Exit(1, Error("missing", l, missing, 0))
               /\ UNCHANGED <<child, spawnLog>>
          ELSE /\ child' = l
               /\ spawnLog' = Append(spawnLog, [layer |-> l, missing |-> missing,
                                                closed |-> Len(closeLog)])
               /\ UNCHANGED <<pc, exitCode, errorMsg>>
    /\ UNCHANGED <<argv, dryRun, outputFormats, baseJson, files, files0, layers,
                   toGenerate, layersToRun, idx, generated, closeLog>>
    /\ UNCHANGED <<watchVars, genVars, auxVars>>

\* The generator runs and its process closes: runLayer resolves on code 0
\* and rejects otherwise; a rejection ends main with exit 1.
ChildClose ==
    /\ pc = "loop"
    /\ child # NoChild
    /\ LET r == RunGenerator(child, files, baseJson, outputFormats)
       IN /\ files' = r.files
          /\ closeLog' = Append(closeLog, [layer |-> child, code |-> r.code,
                                           written |-> r.files[child] # Absent])
          /\ child' = NoChild
          /\ IF Resolved(r.code)
             THEN /\ generated' = generated \cup {child}
                  /\ idx' = idx + 1
                  /\ UNCHANGED <<pc, exitCode, errorMsg>>
             ELSE /\ Exit(1, Error("failed", child, <<>>, r.code))
                  /\ UNCHANGED <<generated, idx>>
    /\ UNCHANGED <<argv, dryRun, outputFormats, baseJson, files0, layers,
                   toGenerate, layersToRun, spawnLog>>
    /\ UNCHANGED <<watchVars, genVars, auxVars>>

\* spawn fails (the runtime cannot be started): child.on("error", reject).
ChildError ==
    /\ pc = "loop"
    /\ child # NoChild
    /\ closeLog' = Append(closeLog, [layer |-> child, code |-> -1, written |-> FALSE])
    /\ child' = NoChild
    /\ Exit(1, Error("spawn", child, <<>>, -1))
    /\ UNCHANGED <<argv, dryRun, outputFormats, baseJson, files, files0, layers,
                   toGenerate, layersToRun, idx, generated, spawnLog>>
    /\ UNCHANGED <<watchVars, genVars, auxVars>>

\* The loop is over: generateLayers returns and the process ends with 0.
LoopDone ==
    /\ pc = "loop"
    /\ child = NoChild
    /\ idx > Len(layersToRun)
    /\ Exit(0, NoError)
    /\ UNCHANGED <<argv, dryRun, outputFormats, baseJson, files, files0, layers,
                   toGenerate, layersToRun, idx, generated, child, spawnLog, closeLog>>
    /\ UNCHANGED <<watchVars, genVars, auxVars>>

NextTokens ==
    \/ MainNoLayers
    \/ GenerateLayers
    \/ LoopStep
    \/ ChildClose
    \/ ChildError
    \/ LoopDone

SpecTokens == InitTokens /\ [][NextTokens]_vars

(***************************************************************************)
(* Claims about the orchestrator (checked under SpecTokens)                *)
(***************************************************************************)
\* The layers main hands to generateLayers.
Requested == IF argv.all THEN LAYERS ELSE argv.layers

SpawnedLayers == [i \in 1..Len(spawnLog) |-> spawnLog[i].layer]

Succeeded == pc = "exited" /\ exitCode = 0 /\ ~dryRun

\* The artifact a tier gets when every tier is generated afresh from base.json.
Fresh(l) ==
    CASE l = "primitives" -> PrimitivesJson(baseJson)
      [] l = "semantic" -> SemanticJson(PrimitivesJson(baseJson))
      [] l = "components" -> ComponentsJson

IsPrefix(s, t) == Len(s) <= Len(t) /\ \A i \in 1..Len(s) : s[i] = t[i]

\* C1: no generator is ever spawned while the JSON artifact of one of its
\* tier's dependencies is absent from the output directory (the run aborts
\* with an error naming the dependency instead).
C1_NoSpawnWithMissingDependency ==
    \A i \in 1..Len(spawnLog) : spawnLog[i].missing = <<>>

\* C2: without --force a tier of the closure is regenerated (its generator is
\* spawned) only if it was requested or its artifact did not exist, and in a
\* run that completes every such tier has been regenerated; an unrequested
\* dependency whose artifact exists is never spawned and its file is unchanged.
C2_RegenerationRule ==
    ~argv.force /\ pc # "main" =>
        /\ \A i \in 1..Len(spawnLog) :
              /\ Includes(toGenerate, spawnLog[i].layer)
              /\ \/ Includes(Requested, spawnLog[i].layer)
                 \/ files0[spawnLog[i].layer] = Absent
        /\ \A l \in Range(toGenerate) :
              ~Includes(Requested, l) /\ files0[l] # Absent =>
                  /\ ~Includes(SpawnedLayers, l)
                  /\ files[l] = files0[l]
        /\ Succeeded =>
              \A l \in Range(toGenerate) :
                  Includes(Requested, l) \/ files0[l] = Absent =>
                      \E i \in 1..Len(closeLog) :
                          closeLog[i].layer = l /\ closeLog[i].code = 0

\* C2 witness: a completed run without --force that regenerated a requested
\* tier whose artifact existed and skipped an existing, unrequested dependency.
C2_Witness ==
    /\ ~argv.force /\ Succeeded
    /\ Requested = <<"semantic">>
    /\ files0["semantic"] # Absent /\ files0["primitives"] # Absent
    /\ SpawnedLayers = <<"semantic">>
    /\ files["primitives"] = files0["primitives"]

\* C3: with only components requested and no artifact present, the planned
\* and the actual run order is primitives, semantic, components, and a run
\* that completes has run all three and leaves all three artifacts present.
C3_ComponentsOnlyOrder ==
    Requested = <<"components">> /\ (\A l \in Layer : files0[l] = Absent) =>
        /\ pc # "main" => layersToRun = LAYERS
        /\ IsPrefix(SpawnedLayers, LAYERS)
        /\ Succeeded =>
              /\ SpawnedLayers = LAYERS
              /\ \A l \in Layer : files[l] # Absent

\* C3 witness: such a run completed.
C3_Witness ==
    /\ Requested = <<"components">> /\ (\A l \in Layer : files0[l] = Absent)
    /\ Succeeded
    /\ Len(closeLog) = 3
    /\ files["components"] = ComponentsJson

\* C4: once a generator has failed (non-zero exit or spawn error) it is the
\* last one ever spawned in the run, and the orchestrator has ended with
\* exit status 1.
C4_FailFast ==
    \A i \in 1..Len(closeLog) :
        closeLog[i].code # 0 =>
            /\ i = Len(closeLog)
            /\ Len(spawnLog) = i
            /\ child = NoChild
            /\ pc = "exited"
            /\ exitCode = 1

\* C4 witness: a generator failed while later tiers were still to run.
C4_Witness ==
    /\ closeLog # <<>>
    /\ closeLog[Len(closeLog)].code # 0
    /\ Len(layersToRun) > Len(closeLog)
    /\ exitCode = 1

\* C5: a generator is spawned only after the generator of the previous tier
\* in the run order has closed with exit code 0, that is, after that tier's
\* artifact has been written.
C5_NextAfterArtifactWritten ==
    \A i \in 2..Len(spawnLog) :
        /\ spawnLog[i].closed = i - 1
        /\ closeLog[i - 1].layer = spawnLog[i - 1].layer
        /\ closeLog[i - 1].code = 0
        /\ closeLog[i - 1].written

\* C8 as stated: after a successful run every tier artifact of the closure is
\* the one generated from the current base.json, whatever the output
\* directory held before.
C8_ArtifactsDependOnInputOnly ==
    Succeeded => \A l \in Range(toGenerate) : files[l] = Fresh(l)

\* C8 amended: the same, for runs that regenerate every tier of the closure
\* (--force, or every tier of the closure requested) under a configuration
\* whose output formats include json.
C8_RegeneratedArtifactsDependOnInputOnly ==
    /\ Succeeded
    /\ "json" \in outputFormats
    /\ argv.force \/ Range(toGenerate) \subseteq Range(Requested)
    => \A l \in Range(toGenerate) : files[l] = Fresh(l)

\* C8 witness: a forced run of semantic alone over a primitives.json of
\* another document has completed.
C8_Witness ==
    /\ Succeeded /\ argv.force /\ "json" \in outputFormats
    /\ Requested = <<"semantic">>
    /\ files0["primitives"] \in {PrimitivesJson(d) : d \in Docs \ {baseJson}}
    /\ files["primitives"] = PrimitivesJson(baseJson)
    /\ files["semantic"] = Fresh("semantic")

\* C20: with --dry-run the tokens command starts no tier generator and
\* creates or modifies no tier artifact of the output directory.
C20_DryRunStartsAndWritesNothing ==
    dryRun =>
        /\ spawnLog = <<>>
        /\ child = NoChild
        /\ files = files0

\* C20 witness: a dry run that had layers to generate has returned.
C20_Witness ==
    /\ dryRun
    /\ pc = "exited"
    /\ exitCode = 0
    /\ layersToRun # <<>>
    /\ spawnLog = <<>>

\* The tiers a set of tiers depends on, directly or through other tiers.
DependencyClosure(ls) ==
    LET step(S) == S \cup UNION {Range(layerDependencies[l]) : l \in S}
    IN step(step(step(ls)))

\* C21: for every requested tier list (any order, duplicates allowed) the
\* generation order holds each tier of the transitive dependency closure
\* exactly once and places every tier after all of its dependencies.
C21_ClosureOnceAndDependenciesFirst ==
    pc # "main" =>
        /\ Range(toGenerate) = DependencyClosure(Range(layers))
        /\ \A i, j \in 1..Len(toGenerate) : i # j => toGenerate[i] # toGenerate[j]
        /\ \A i \in 1..Len(toGenerate) :
              \A d \in Range(layerDependencies[toGenerate[i]]) :
                  \E j \in 1..(i - 1) : toGenerate[j] = d

\* C21 witness: a request that names a tier twice, and one that names a tier
\* before its dependency, have been ordered.
C21_Witness ==
    /\ pc # "main"
    /\ layers \in {<<"semantic", "semantic">>, <<"components", "primitives">>}
    /\ Len(toGenerate) >= 2

(***************************************************************************)
(* Part 2: watch mode, src/cli.js runWatch                                 *)
(***************************************************************************)
MaxTime == 700
MaxChanges == 3

\* the delay of the setTimeout in handleChange
DEBOUNCE_MS == 300

TimeSteps == {100, 200, 300}

\* fs.watch may deliver no filename
NoName == ""

FileNames == {NoName, "a.scss", "b.css", "c.js"}

\* /\.(s?css|sass)$/i.test(filename), on the names of FileNames
IsStyleFile(filename) == filename \in {"a.scss", "b.css"}

IgnoredMutant(filename, building) == filename = NoName

\* handleChange: if (!filename || isBuilding) return;
Ignored(filename, building) == filename = NoName \/ building

ClearTimeoutMutant(ts, id) == ts

\* clearTimeout(id): the timeout, if still pending, is removed.
ClearTimeout(ts, id) == {t \in ts : t.id # id}

Event(kind, filename, scheduled) ==
    [kind |-> kind, at |-> now, filename |-> filename,
     active |-> activeRuns, scheduled |-> scheduled]

Changes == {i \in 1..Len(evLog) : evLog[i].kind = "change"}

InitWatch ==
    /\ IdleWatch
    /\ IdleOrch
    /\ IdleGen
    /\ IdleAux

\* fs.watch delivers a change notification: handleChange(_eventType, filename).
HandleChange(filename) ==
    /\ alive
    /\ Cardinality(Changes) < MaxChanges
    /\ IF Ignored(filename, isBuilding) \/ ~IsStyleFile(filename)
       THEN /\ evLog' = Append(evLog, Event("change", filename, FALSE))
            /\ UNCHANGED <<timers, nextTimerId, debounceTimer>>
       ELSE /\ timers' = (IF debounceTimer # 0
                          THEN ClearTimeout(timers, debounceTimer)
                          ELSE timers)
                         \cup {[id |-> nextTimerId, at |-> now + DEBOUNCE_MS]}
            /\ debounceTimer' = nextTimerId
            /\ nextTimerId' = nextTimerId + 1
            /\ evLog' = Append(evLog, Event("change", filename, TRUE))
    /\ UNCHANGED <<now, isBuilding, activeRuns, alive>>
    /\ UNCHANGED <<orchVars, genVars, auxVars>>

\* A timeout is due: its callback sets isBuilding and calls runBundlePipeline,
\* which runs up to its first await.
TimerFire ==
    /\ alive
    /\ \E t \in timers :
        /\ t.at <= now
        /\ timers' = timers \ {t}
    /\ isBuilding' = TRUE
    /\ activeRuns' = activeRuns + 1
    /\ evLog' = Append(evLog, Event("run", NoName, FALSE))
    /\ UNCHANGED <<now, nextTimerId, debounceTimer, alive>>
    /\ UNCHANGED <<orchVars, genVars, auxVars>>

\* runBundlePipeline resolves: "Rebuild complete", finally isBuilding = false.
RunSucceeds ==
    /\ alive
    /\ activeRuns > 0
    /\ activeRuns' = activeRuns - 1
    /\ isBuilding' = FALSE
    /\ evLog' = Append(evLog, Event("end", NoName, FALSE))
    /\ UNCHANGED <<now, timers, nextTimerId, debounceTimer, alive>>
    /\ UNCHANGED <<orchVars, genVars, auxVars>>

\* A step of runBundlePipeline fails: its catch calls process.exit(1).
RunFails ==
    /\ alive
    /\ activeRuns > 0
    /\ alive' = FALSE
    /\ evLog' = Append(evLog, Event("exit", NoName, FALSE))
    /\ UNCHANGED <<now, timers, nextTimerId, debounceTimer, isBuilding, activeRuns>>
    /\ UNCHANGED <<orchVars, genVars, auxVars>>

\* Time passes, never beyond a pending timeout: a due timeout fires first.
Advance(dt) ==
    /\ alive
    /\ now + dt <= MaxTime
    /\ \A t \in timers : now + dt <= t.at
    /\ now' = now + dt
    /\ UNCHANGED <<timers, nextTimerId, debounceTimer, isBuilding, activeRuns,
                   alive, evLog>>
    /\ UNCHANGED <<orchVars, genVars, auxVars>>

NextWatch ==
    \/ \E filename \in FileNames : HandleChange(filename)
    \/ TimerFire
    \/ RunSucceeds
    \/ RunFails
    \/ \E dt \in TimeSteps : Advance(dt)

SpecWatch == InitWatch /\ [][NextWatch]_vars

(***************************************************************************)
(* Claims about watch mode (checked under SpecWatch)                       *)
(***************************************************************************)
Runs == {i \in 1..Len(evLog) : evLog[i].kind = "run"}

\* The notifications that set the debounce timer.
Scheduling == {i \in Changes : evLog[i].scheduled}

\* C6: at most one pipeline run is active, and a notification that arrives
\* while a run is active sets no timer: no run is scheduled while one is
\* active, so none starts after it without a further notification.
C6_OneRunDropWhileActive ==
    /\ activeRuns <= 1
    /\ activeRuns > 0 => timers = {}
    /\ \A i \in Changes : evLog[i].active > 0 => ~evLog[i].scheduled
    /\ \A r \in Runs :
          /\ evLog[r].active = 0
          /\ \E i \in Scheduling : i < r /\ evLog[i].active = 0

\* C6 witness: a style-file notification arrived while a run was active, and
\* that run has ended since.
C6_Witness ==
    \E i \in Changes :
        /\ evLog[i].active = 1
        /\ IsStyleFile(evLog[i].filename)
        /\ \E e \in 1..Len(evLog) : e > i /\ evLog[e].kind = "end"
        /\ now >= evLog[i].at + DEBOUNCE_MS

\* C7: with no run active, style-file notifications less than 300 ms apart
\* start no run between them, and the last one of such a burst (followed by
\* more than 300 ms without a notification) is followed by exactly one run,
\* started 300 ms after it.
C7_BurstOneRun ==
    /\ \A r \in Runs :
          \E i \in Scheduling :
              /\ i < r
              /\ evLog[r].at = evLog[i].at + DEBOUNCE_MS
              /\ \A k \in (i + 1)..(r - 1) : k \notin Scheduling /\ k \notin Runs
    /\ \A i \in Scheduling :
          LET later == {k \in Scheduling \cup Runs : k > i}
          IN IF later = {}
             THEN now <= evLog[i].at + DEBOUNCE_MS
             ELSE LET k == CHOOSE m \in later : \A n \in later : m <= n
                  IN IF k \in Runs
                     THEN evLog[k].at = evLog[i].at + DEBOUNCE_MS
                     ELSE evLog[k].at <= evLog[i].at + DEBOUNCE_MS

\* C7 witness: a burst of three style-file notifications, each less than
\* 300 ms after the previous one, then one run, and time has moved on.
C7_Witness ==
    /\ Len(evLog) >= 4
    /\ \A i \in 1..3 : i \in Scheduling
    /\ \A i \in 1..2 : /\ evLog[i + 1].at > evLog[i].at
                       /\ evLog[i + 1].at < evLog[i].at + DEBOUNCE_MS
    /\ 4 \in Runs
    /\ Cardinality(Runs) = 1
    /\ now > evLog[4].at

\* C24: after a pipeline run started by the watcher has ended, whether it
\* succeeded or failed, the watcher is idle again (isBuilding is false) and
\* still running, so that a later style-file notification starts a new run.
C24_IdleAndAliveAfterRun ==
    (evLog # <<>> /\ evLog[Len(evLog)].kind \in {"end", "exit"}) =>
        /\ alive
        /\ ~isBuilding

\* After a run that succeeded the watcher is idle and alive.
IdleAfterSuccessfulRun ==
    (evLog # <<>> /\ evLog[Len(evLog)].kind = "end") => (alive /\ ~isBuilding)

\* A run has failed and the watcher process is gone with it.
WatcherExitedOnFailure ==
    /\ evLog # <<>>
    /\ evLog[Len(evLog)].kind = "exit"
    /\ ~alive
    /\ isBuilding

(***************************************************************************)
(* Part 3: the tier builders, src/generators/{primitives,semantic,         *)
(* components}.js.  A tier is a set of leaf tokens; a leaf has its path    *)
(* (a sequence of keys) and, if its value is a reference "{a.b.c}", the    *)
(* path it names.                                                          *)
(***************************************************************************)
MaxColors == 5
MaxHops == 4

\* config.spacingBase || 4
SpacingBase == 4

\* the JavaScript value undefined, as a scale key
Undefined == -1

Min(a, b) == IF a < b THEN a ELSE b
Max(a, b) == IF a > b THEN a ELSE b

\* The result of categorizeHexColor, for the colours of the documents.
Categories == {"neutral", "red", "yellow", "green", "blue", "purple"}

Lit(key) == [path |-> <<key>>, isRef |-> FALSE, target |-> <<>>]

\* ref(tokenPath) as the value of key
Ref(key, target) == [path |-> <<key>>, isRef |-> TRUE, target |-> target]

\* the tokens of an object placed under a key of the enclosing object
Under(key, tokens) == {[t EXCEPT !.path = <<key>> \o t.path] : t \in tokens}

\* names[0..n-1] of a name list, each a literal leaf (mapToScale, slice + reduce)
mapToScale(names, n) == {Lit(names[i]) : i \in 1..Min(n, Len(names))}

typeScaleNames == <<"xs", "sm", "base", "md", "lg", "xl", "2xl", "3xl", "4xl", "5xl">>
lineHeightNames == <<"tight", "snug", "normal", "relaxed", "loose", "spacious">>
letterSpacingNames == <<"tight", "normal", "wide", "wider">>
radiusNames == <<"none", "sm", "md", "lg", "xl", "full">>
shadowNames == <<"sm", "md", "lg", "xl", "2xl">>
zIndexNames == <<"base", "dropdown", "sticky", "modal", "tooltip">>
familyNames == <<"primary", "secondary", "family3", "family4", "family5">>

weightMap ==
    [w \in {100, 200, 300, 400, 500, 600, 700, 800, 900} |->
        CASE w = 100 -> "thin" [] w = 200 -> "extralight" [] w = 300 -> "light"
          [] w = 400 -> "normal" [] w = 500 -> "medium" [] w = 600 -> "semibold"
          [] w = 700 -> "bold" [] w = 800 -> "extrabold" [] w = 900 -> "black"]

\* Math.round(value / base) for value, base > 0
RoundDiv(value, base) == (2 * value + base) \div (2 * base)

\* generateSpacingScale(base)(values): values are the px magnitudes
generateSpacingScale(base, values) ==
    {Lit(ToString(RoundDiv(v, base))) :
        v \in {x \in values : /\ x >= 1 /\ x <= 200
                              /\ RoundDiv(x, base) >= 1
                              /\ RoundDiv(x, base) <= 50}}

\* generateTypeScale(names)(sizes): n distinct sizes within [10, 96]
generateTypeScale(names, n) == mapToScale(names, n)

buildFontFamilies(n) == mapToScale(familyNames, n)

buildFontWeights(weights) ==
    {Lit(weightMap[w]) : w \in weights \cap DOMAIN weightMap}

RECURSIVE CategoryOrder(_, _)
\* the keys of the groups object, in insertion order
CategoryOrder(colors, seen) ==
    IF colors = <<>> THEN seen
    ELSE CategoryOrder(Tail(colors),
                       IF Includes(seen, Head(colors)) THEN seen
                       ELSE Append(seen, Head(colors)))

\* groupColors(colors): per category in insertion order, the number of colours
groupColors(colors) ==
    LET order == CategoryOrder(colors, <<>>)
    IN [i \in 1..Len(order) |->
           [category |-> order[i],
            n |-> Cardinality({k \in 1..Len(colors) : colors[k] = order[i]})]]

\* mapColorScale(colors): the keys given to a group of n colours
mapColorScale(n) ==
    LET step == 900 \div Max(n - 1, 1)
    IN {Min(100 + i * step, 950) : i \in 0..(n - 1)}

buildColorPrimitives(colorGroups) ==
    [i \in 1..Len(colorGroups) |->
        [category |-> colorGroups[i].category,
         keys |-> mapColorScale(colorGroups[i].n)]]

\* const primitives = {...}: the colour scales, and the leaves of the rest
buildPrimitives(doc) ==
    [color |-> buildColorPrimitives(groupColors(doc.colors)),
     tokens |->
        Under("spacing", generateSpacingScale(SpacingBase, doc.spacing))
        \cup Under("typography",
                Under("fontFamily", buildFontFamilies(doc.fontFamilies))
                \cup Under("fontSize", generateTypeScale(typeScaleNames, doc.fontSizes))
                \cup Under("fontWeight", buildFontWeights(doc.fontWeights))
                \cup Under("lineHeight", mapToScale(lineHeightNames, doc.lineHeights))
                \cup Under("letterSpacing", mapToScale(letterSpacingNames, doc.letterSpacings)))
        \cup Under("border", Under("radius", mapToScale(radiusNames, doc.borderRadii)))
        \cup Under("shadow", mapToScale(shadowNames, doc.shadows))
        \cup Under("zIndex", mapToScale(zIndexNames, doc.zIndices))]

KeyStr(k) == IF k = Undefined THEN "undefined" ELSE ToString(k)

\* The leaves of a primitives tree.
PrimitiveTokens(prim) ==
    prim.tokens
    \cup UNION {Under("color", Under(prim.color[i].category,
                    {Lit(KeyStr(k)) : k \in prim.color[i].keys})) :
                i \in 1..Len(prim.color)}

\* ---- semantic.js ----
\* colors[category] || {}: the keys of a colour scale
ColorScale(color, category) ==
    UNION {color[i].keys : i \in {j \in 1..Len(color) : color[j].category = category}}

HasCategory(color, category) == \E i \in 1..Len(color) : color[i].category = category

RECURSIVE SortNumeric(_)
SortNumeric(S) ==
    IF S = {} THEN <<>>
    ELSE LET m == CHOOSE x \in S : \A y \in S : x <= y
         IN <<m>> \o SortNumeric(S \ {m})

getSortedKeys(obj) == SortNumeric(obj)

\* keys[index] of a JavaScript array: undefined outside 0..length-1
At(keys, index) ==
    IF index >= 0 /\ index < Len(keys) THEN keys[index + 1] ELSE Undefined

getKeyAtMutant(keys, index, fallback) == At(keys, index)

\* keys[index] ?? fallback ?? keys[0]
getKeyAt(keys, index, fallback) ==
    IF At(keys, index) # Undefined THEN At(keys, index)
    ELSE IF fallback # Undefined THEN fallback
    ELSE At(keys, 0)

getMiddleIndex(keys) == Len(keys) \div 2

\* buildColorRef(category)(scale), without the braces
buildColorRef(category, scale) == <<"color", category, KeyStr(scale)>>

NonNeutral(color) ==
    LET idx0 == {i \in 1..Len(color) : color[i].category # "neutral"}
    IN [k \in 1..Cardinality(idx0) |->
           color[CHOOSE i \in idx0 : Cardinality({j \in idx0 : j < i}) = k - 1].category]

buildInteractiveStates(category, keys, mid) ==
    LET midIndex == getMiddleIndex(keys)
    IN {Ref("default", buildColorRef(category, getKeyAt(keys, midIndex, Undefined))),
        Ref("hover", buildColorRef(category,
                        getKeyAt(keys, midIndex + 1, At(keys, Len(keys) - 1)))),
        Ref("active", buildColorRef(category, getKeyAt(keys, Len(keys) - 1, Undefined))),
        Ref("disabled", buildColorRef("neutral", mid))}

feedbackMap ==
    <<<<"green", "success">>, <<"red", "error">>, <<"yellow", "warning">>,
      <<"orange", "caution">>, <<"blue", "info">>>>

\* buildFeedbackTokens.createFeedback: nothing for a hue the colours lack
createFeedback(color, colorName, semanticName) ==
    IF ~HasCategory(color, colorName) THEN {}
    ELSE LET keys == getSortedKeys(ColorScale(color, colorName))
         IN Under(semanticName,
                {Ref("bg", buildColorRef(colorName, getKeyAt(keys, 0, Undefined))),
                 Ref("border", buildColorRef(colorName,
                                  getKeyAt(keys, Len(keys) \div 3, Undefined))),
                 Ref("text", buildColorRef(colorName,
                                getKeyAt(keys, Len(keys) - 1, Undefined)))})

buildFeedbackTokens(color) ==
    UNION {createFeedback(color, feedbackMap[i][1], feedbackMap[i][2]) :
           i \in 1..Len(feedbackMap)}

buildSecondaryInteractive(categories, color, mid) ==
    IF Len(categories) < 2 THEN {}
    ELSE Under("secondary",
            buildInteractiveStates(categories[2],
                getSortedKeys(ColorScale(color, categories[2])), mid))

\* const semantic = {...}, with interactive.secondary added when there is one
buildSemantic(prim) ==
    LET neutralKeys == getSortedKeys(ColorScale(prim.color, "neutral"))
        lightest == getKeyAt(neutralKeys, 0, Undefined)
        darkest == getKeyAt(neutralKeys, Len(neutralKeys) - 1, Undefined)
        mid == getKeyAt(neutralKeys, getMiddleIndex(neutralKeys), Undefined)
        neutralRef(scale) == buildColorRef("neutral", scale)
        colorCategories == NonNeutral(prim.color)
        primary == IF colorCategories # <<>> THEN colorCategories[1] ELSE "blue"
        primaryKeys == getSortedKeys(ColorScale(prim.color, primary))
        primaryMid == getKeyAt(primaryKeys, getMiddleIndex(primaryKeys), Undefined)
        primaryRef(scale) == buildColorRef(primary, scale)
        spacingRefs(steps) ==
            {Ref(st[1], <<"spacing", st[2]>>) : st \in steps}
    IN Under("surface",
           {Ref("default", neutralRef(lightest)),
            Ref("secondary", neutralRef(getKeyAt(neutralKeys, 1, lightest))),
            Ref("tertiary", neutralRef(getKeyAt(neutralKeys, 2, mid))),
            Ref("inverse", neutralRef(darkest))})
       \cup Under("text",
           {Ref("primary", neutralRef(darkest)),
            Ref("secondary", neutralRef(getKeyAt(neutralKeys, Len(neutralKeys) - 2, darkest))),
            Ref("tertiary", neutralRef(mid)),
            Ref("inverse", neutralRef(lightest)),
            Ref("disabled", neutralRef(mid)),
            Ref("link", primaryRef(primaryMid))})
       \cup Under("border",
           {Ref("default", neutralRef(getKeyAt(neutralKeys, 2, mid))),
            Ref("subtle", neutralRef(getKeyAt(neutralKeys, 1, lightest))),
            Ref("strong", neutralRef(getKeyAt(neutralKeys, Len(neutralKeys) - 2, darkest))),
            Ref("focus", primaryRef(primaryMid))})
       \cup Under("interactive",
           Under("primary", buildInteractiveStates(primary, primaryKeys, mid))
           \cup buildSecondaryInteractive(colorCategories, prim.color, mid))
       \cup Under("feedback", buildFeedbackTokens(prim.color))
       \cup Under("typography",
           Under("body",
               {Ref("fontFamily", <<"typography", "fontFamily", "primary">>),
                Ref("fontSize", <<"typography", "fontSize", "base">>),
                Ref("lineHeight", <<"typography", "lineHeight", "normal">>),
                Ref("fontWeight", <<"typography", "fontWeight", "normal">>)})
           \cup Under("heading",
               {Ref("fontFamily", <<"typography", "fontFamily", "primary">>),
                Ref("fontWeight", <<"typography", "fontWeight", "bold">>)})
           \cup Under("caption",
               {Ref("fontFamily", <<"typography", "fontFamily", "primary">>),
                Ref("fontSize", <<"typography", "fontSize", "sm">>),
                Ref("lineHeight", <<"typography", "lineHeight", "tight">>)}))
       \cup Under("spacing",
           Under("inset", spacingRefs({<<"xs", "1">>, <<"sm", "2">>, <<"md", "4">>,
                                       <<"lg", "6">>, <<"xl", "8">>}))
           \cup Under("stack", spacingRefs({<<"xs", "1">>, <<"sm", "2">>, <<"md", "4">>,
                                            <<"lg", "6">>, <<"xl", "8">>}))
           \cup Under("inline", spacingRefs({<<"xs", "1">>, <<"sm", "2">>, <<"md", "4">>,
                                             <<"lg", "6">>})))
       \cup Under("elevation",
           {Lit("none"),
            Ref("low", <<"shadow", "sm">>),
            Ref("medium", <<"shadow", "md">>),
            Ref("high", <<"shadow", "lg">>)})
       \cup Under("radius",
           {Lit("none"),
            Ref("small", <<"border", "radius", "sm">>),
            Ref("medium", <<"border", "radius", "md">>),
            Ref("large", <<"border", "radius", "lg">>),
            Ref("pill", <<"border", "radius", "full">>)})
       \cup Under("layer",
           {Ref("base", <<"zIndex", "base">>),
            Ref("dropdown", <<"zIndex", "dropdown">>),
            Ref("sticky", <<"zIndex", "sticky">>),
            Ref("modal", <<"zIndex", "modal">>),
            Ref("tooltip", <<"zIndex", "tooltip">>)})

\* ---- components.js ----
\* buildFeedbackVariant: background, border and text of a feedback type
buildFeedbackVariant(type) ==
    {Ref("background", <<"feedback", type, "bg">>),
     Ref("border", <<"feedback", type, "border">>),
     Ref("text", <<"feedback", type, "text">>)}

\* buildBadgeVariant: background and text of a feedback type
buildBadgeVariant(type) ==
    {Ref("background", <<"feedback", type, "bg">>),
     Ref("text", <<"feedback", type, "text">>)}

\* buildButtonVariant: the token set of one button variant
buildButtonVariant(variant) ==
    CASE variant = "primary" ->
        {Ref("background", <<"interactive", "primary", "default">>),
         Ref("backgroundHover", <<"interactive", "primary", "hover">>),
         Ref("backgroundActive", <<"interactive", "primary", "active">>),
         Ref("backgroundDisabled", <<"interactive", "primary", "disabled">>),
         Ref("text", <<"text", "inverse">>),
         Ref("textDisabled", <<"text", "disabled">>),
         Lit("border"),
         Ref("borderRadius", <<"radius", "medium">>),
         Ref("paddingX", <<"spacing", "inline", "md">>),
         Ref("paddingY", <<"spacing", "inset", "sm">>),
         Ref("fontSize", <<"typography", "body", "fontSize">>),
         Ref("fontWeight", <<"typography", "heading", "fontWeight">>)}
      [] variant = "secondary" ->
        {Lit("background"),
         Ref("backgroundHover", <<"surface", "secondary">>),
         Ref("backgroundActive", <<"surface", "tertiary">>),
         Ref("text", <<"interactive", "primary", "default">>),
         Ref("textHover", <<"interactive", "primary", "hover">>),
         Ref("textDisabled", <<"text", "disabled">>),
         Ref("border", <<"border", "default">>),
         Ref("borderHover", <<"interactive", "primary", "default">>),
         Ref("borderRadius", <<"radius", "medium">>),
         Ref("paddingX", <<"spacing", "inline", "md">>),
         Ref("paddingY", <<"spacing", "inset", "sm">>)}
      [] variant = "ghost" ->
        {Lit("background"),
         Ref("backgroundHover", <<"surface", "secondary">>),
         Ref("text", <<"text", "primary">>),
         Ref("textHover", <<"interactive", "primary", "default">>),
         Lit("border"),
         Ref("borderRadius", <<"radius", "medium">>),
         Ref("paddingX", <<"spacing", "inline", "sm">>),
         Ref("paddingY", <<"spacing", "inset", "sm">>)}

\* const components = {...}: the static catalogue
componentsCatalog ==
    Under("button",
        Under("primary", buildButtonVariant("primary"))
        \cup Under("secondary", buildButtonVariant("secondary"))
        \cup Under("ghost", buildButtonVariant("ghost")))
    \cup Under("input",
        {Ref("background", <<"surface", "default">>),
         Ref("backgroundDisabled", <<"surface", "secondary">>),
         Ref("text", <<"text", "primary">>),
         Ref("textPlaceholder", <<"text", "tertiary">>),
         Ref("textDisabled", <<"text", "disabled">>),
         Ref("border", <<"border", "default">>),
         Ref("borderHover", <<"border", "strong">>),
         Ref("borderFocus", <<"border", "focus">>),
         Ref("borderError", <<"feedback", "error", "border">>),
         Ref("borderRadius", <<"radius", "small">>),
         Ref("paddingX", <<"spacing", "inline", "md">>),
         Ref("paddingY", <<"spacing", "inset", "sm">>),
         Ref("fontSize", <<"typography", "body", "fontSize">>)})
    \cup Under("card",
        {Ref("background", <<"surface", "default">>),
         Ref("backgroundHover", <<"surface", "secondary">>),
         Ref("border", <<"border", "subtle">>),
         Ref("borderRadius", <<"radius", "large">>),
         Ref("shadow", <<"elevation", "low">>),
         Ref("shadowHover", <<"elevation", "medium">>),
         Ref("padding", <<"spacing", "inset", "lg">>),
         Ref("gap", <<"spacing", "stack", "md">>)})
    \cup Under("modal",
        {Lit("overlay"),
         Ref("background", <<"surface", "default">>),
         Ref("border", <<"border", "subtle">>),
         Ref("borderRadius", <<"radius", "large">>),
         Ref("shadow", <<"elevation", "high">>),
         Ref("padding", <<"spacing", "inset", "xl">>),
         Ref("gap", <<"spacing", "stack", "lg">>),
         Ref("zIndex", <<"layer", "modal">>)})
    \cup Under("tooltip",
        {Ref("background", <<"surface", "inverse">>),
         Ref("text", <<"text", "inverse">>),
         Ref("borderRadius", <<"radius", "small">>),
         Ref("padding", <<"spacing", "inset", "sm">>),
         Ref("shadow", <<"elevation", "medium">>),
         Ref("zIndex", <<"layer", "tooltip">>),
         Ref("fontSize", <<"typography", "caption", "fontSize">>)})
    \cup Under("badge",
        {Ref("borderRadius", <<"radius", "pill">>),
         Ref("paddingX", <<"spacing", "inline", "sm">>),
         Ref("paddingY", <<"spacing", "inset", "xs">>),
         Ref("fontSize", <<"typography", "caption", "fontSize">>),
         Ref("fontWeight", <<"typography", "heading", "fontWeight">>)}
        \cup Under("default",
            {Ref("background", <<"surface", "tertiary">>),
             Ref("text", <<"text", "primary">>)})
        \cup Under("success", buildBadgeVariant("success"))
        \cup Under("error", buildBadgeVariant("error"))
        \cup Under("warning", buildBadgeVariant("warning"))
        \cup Under("info", buildBadgeVariant("info")))
    \cup Under("link",
        {Ref("text", <<"text", "link">>),
         Ref("textHover", <<"interactive", "primary", "hover">>),
         Ref("textActive", <<"interactive", "primary", "active">>),
         Lit("underline"),
         Lit("underlineHover")})
    \cup Under("avatar",
        {Ref("background", <<"surface", "tertiary">>),
         Ref("text", <<"text", "secondary">>),
         Ref("border", <<"border", "subtle">>),
         Ref("borderRadius", <<"radius", "pill">>)}
        \cup Under("sizes",
            {Lit("sm"),
             Lit("md"),
             Lit("lg"),
             Lit("xl")}))
    \cup Under("dropdown",
        {Ref("background", <<"surface", "default">>),
         Ref("border", <<"border", "default">>),
         Ref("borderRadius", <<"radius", "medium">>),
         Ref("shadow", <<"elevation", "medium">>),
         Ref("zIndex", <<"layer", "dropdown">>)}
        \cup Under("item",
            {Lit("background"),
             Ref("backgroundHover", <<"surface", "secondary">>),
             Ref("backgroundActive", <<"surface", "tertiary">>),
             Ref("text", <<"text", "primary">>),
             Ref("textDisabled", <<"text", "disabled">>),
             Ref("padding", <<"spacing", "inset", "sm">>)}))
    \cup Under("tabs",
        {Ref("border", <<"border", "subtle">>)}
        \cup Under("tab",
            {Ref("text", <<"text", "secondary">>),
             Ref("textHover", <<"text", "primary">>),
             Ref("textActive", <<"interactive", "primary", "default">>),
             Ref("borderActive", <<"interactive", "primary", "default">>),
             Ref("padding", <<"spacing", "inset", "md">>)})
        \cup Under("panel",
            {Ref("padding", <<"spacing", "inset", "lg">>)}))
    \cup Under("alert",
        {Ref("borderRadius", <<"radius", "medium">>),
         Ref("padding", <<"spacing", "inset", "md">>)}
        \cup Under("success", buildFeedbackVariant("success"))
        \cup Under("error", buildFeedbackVariant("error"))
        \cup Under("warning", buildFeedbackVariant("warning"))
        \cup Under("info", buildFeedbackVariant("info")))

\* ---- the documents and the three-step build ----
EmptyScales ==
    [spacing |-> {}, fontFamilies |-> 0, fontSizes |-> 0, fontWeights |-> {},
     lineHeights |-> 0, letterSpacings |-> 0, borderRadii |-> 0, shadows |-> 0,
     zIndices |-> 0]

SparseScales ==
    [spacing |-> {4, 6, 8}, fontFamilies |-> 1, fontSizes |-> 2, fontWeights |-> {400, 450},
     lineHeights |-> 2, letterSpacings |-> 1, borderRadii |-> 2, shadows |-> 1,
     zIndices |-> 2]

FullScales ==
    [spacing |-> {4, 8, 16, 24, 32}, fontFamilies |-> 2, fontSizes |-> 4,
     fontWeights |-> {400, 700}, lineHeights |-> 3, letterSpacings |-> 3,
     borderRadii |-> 6, shadows |-> 3, zIndices |-> 5]

ScanDoc(colors, scales) ==
    [colors |-> colors, spacing |-> scales.spacing, fontFamilies |-> scales.fontFamilies,
     fontSizes |-> scales.fontSizes, fontWeights |-> scales.fontWeights,
     lineHeights |-> scales.lineHeights, letterSpacings |-> scales.letterSpacings,
     borderRadii |-> scales.borderRadii, shadows |-> scales.shadows,
     zIndices |-> scales.zIndices]

InitBuilders ==
    /\ gpc = "scanned"
    /\ \E colors \in SeqsUpTo(Categories, MaxColors) :
       \E scales \in {EmptyScales, SparseScales, FullScales} :
           scan = ScanDoc(colors, scales)
    /\ primitives = <<>>
    /\ semantic = {}
    /\ components = {}
    /\ IdleOrch
    /\ IdleWatch
    /\ IdleAux

\* primitives.js reads base.json and writes primitives.json
BuildPrimitives ==
    /\ gpc = "scanned"
    /\ primitives' = buildPrimitives(scan)
    /\ gpc' = "primitives"
    /\ UNCHANGED <<scan, semantic, components>>
    /\ UNCHANGED <<orchVars, watchVars, auxVars>>

\* semantic.js reads primitives.json and writes semantic.json
BuildSemantic ==
    /\ gpc = "primitives"
    /\ semantic' = buildSemantic(primitives)
    /\ gpc' = "semantic"
    /\ UNCHANGED <<scan, primitives, components>>
    /\ UNCHANGED <<orchVars, watchVars, auxVars>>

\* components.js writes components.json
BuildComponents ==
    /\ gpc = "semantic"
    /\ components' = componentsCatalog
    /\ gpc' = "components"
    /\ UNCHANGED <<scan, primitives, semantic>>
    /\ UNCHANGED <<orchVars, watchVars, auxVars>>

NextBuilders ==
    \/ BuildPrimitives
    \/ BuildSemantic
    \/ BuildComponents

SpecBuilders == InitBuilders /\ [][NextBuilders]_vars

(***************************************************************************)
(* Claims about the builders (checked under SpecBuilders)                  *)
(***************************************************************************)
AllTokens == PrimitiveTokens(primitives) \cup semantic \cup components

Paths(tokens) == {t.path : t \in tokens}

RECURSIVE Resolves(_, _, _)
\* following the chain from path p reaches a non-reference leaf within hops
Resolves(tokens, p, hops) ==
    \E t \in tokens :
        /\ t.path = p
        /\ ~t.isRef \/ (hops > 0 /\ Resolves(tokens, t.target, hops - 1))

\* C9: once the three tiers are built from a scanned-values document, every
\* reference of the semantic and component tiers resolves to a non-reference
\* value within MaxHops hops against the paths of the three tiers.
C9_EveryReferenceResolves ==
    gpc = "components" =>
        \A t \in semantic \cup components :
            t.isRef => Resolves(AllTokens, t.target, MaxHops)

\* C10: every path a component token references is a path the semantic
\* builder emitted, whatever the primitives were.
C10_ComponentRefsInSemanticContract ==
    gpc = "components" =>
        \A t \in components : t.isRef => t.target \in Paths(semantic)

\* A document for which every reference does resolve is among those checked.
WellFormedReached ==
    /\ gpc = "components"
    /\ \A t \in semantic \cup components :
           t.isRef => Resolves(AllTokens, t.target, MaxHops)

(***************************************************************************)
(* The semantic builder over a primitives file of colour scales only:      *)
(* which neutral key each surface, text and border token names.            *)
(***************************************************************************)
\* The keys a neutral scale of primitives.json may have.
ScaleKeys == {100, 325, 400, 550, 700, 950}

\* primitives.json with a neutral scale of the given keys and, if chromatic,
\* a blue scale
ColorPrimitives(keys, chromatic) ==
    [color |-> <<[category |-> "neutral", keys |-> keys]>>
               \o (IF chromatic THEN <<[category |-> "blue", keys |-> {100, 950}]>>
                   ELSE <<>>),
     tokens |-> {}]

InitNeutral ==
    /\ fpc = "call"
    /\ fin \in {ColorPrimitives(keys, chromatic) :
                    keys \in SUBSET ScaleKeys \ {{}}, chromatic \in BOOLEAN}
    /\ fout = <<>>
    /\ IdleOrch
    /\ IdleWatch
    /\ IdleGen
    /\ IdleDiff
    /\ IdleVal
    /\ IdleBundle

\* semantic.js builds the semantic tree from the primitives it read
BuildSemanticTree ==
    /\ fpc = "call"
    /\ fout' = buildSemantic(fin)
    /\ fpc' = "return"
    /\ UNCHANGED fin
    /\ UNCHANGED restOfFn

NextNeutral == BuildSemanticTree

SpecNeutral == InitNeutral /\ [][NextNeutral]_vars

\* The neutral keys of the primitives, in ascending order.
NeutralKeys == SortNumeric(ColorScale(fin.color, "neutral"))

\* The neutral key each surface, text and border token is to name, for a
\* neutral scale keys of n >= 1 keys (keys[1] is the lightest).
NeutralRoles(keys) ==
    LET n == Len(keys)
        lightest == keys[1]
        darkest == keys[n]
        mid == keys[(n \div 2) + 1]
        secondLightest == IF n >= 2 THEN keys[2] ELSE lightest
        secondDarkest == IF n >= 2 THEN keys[n - 1] ELSE darkest
        third == IF n >= 3 THEN keys[3] ELSE mid
    IN (<<"surface", "default">> :> lightest) @@ (<<"surface", "secondary">> :> secondLightest)
       @@ (<<"surface", "tertiary">> :> third) @@ (<<"surface", "inverse">> :> darkest)
       @@ (<<"text", "primary">> :> darkest) @@ (<<"text", "secondary">> :> secondDarkest)
       @@ (<<"text", "tertiary">> :> mid) @@ (<<"text", "inverse">> :> lightest)
       @@ (<<"text", "disabled">> :> mid)
       @@ (<<"border", "default">> :> third) @@ (<<"border", "subtle">> :> secondLightest)
       @@ (<<"border", "strong">> :> secondDarkest)

\* The surface, text and border tokens of the built tree that refer to the
\* neutral scale.
NeutralReferences ==
    {t \in fout : /\ t.path[1] \in {"surface", "text", "border"}
                  /\ t.isRef
                  /\ t.target[1] = "color"
                  /\ t.target[2] = "neutral"}

TwoKeysReached ==
    /\ fpc = "return"
    /\ NeutralKeys = <<100, 950>>
    /\ \E t \in NeutralReferences :
          t.path = <<"surface", "tertiary">> /\ t.target = <<"color", "neutral", "950">>
    /\ \E t \in NeutralReferences :
          t.path = <<"text", "secondary">> /\ t.target = <<"color", "neutral", "100">>

(***************************************************************************)
(* Part 4: the diff engine, src/commands/diff.js.  A JSON value is a       *)
(* number, a string (its characters) or an object with its members in the  *)
(* order of the file; Undef is the JavaScript value undefined.             *)
(***************************************************************************)
Num(n) == [kind |-> "number", num |-> n, str |-> <<>>, entries |-> <<>>]
Str(s) == [kind |-> "string", num |-> 0, str |-> s, entries |-> <<>>]
Obj(entries) == [kind |-> "object", num |-> 0, str |-> <<>>, entries |-> entries]
Undef == [kind |-> "undefined", num |-> 0, str |-> <<>>, entries |-> <<>>]

RECURSIVE Text(_)
\* the characters of a string, as one string
Text(s) == IF s = <<>> THEN "" ELSE Head(s) \o Text(Tail(s))

TypeUnknown == <<"u", "n", "k", "n", "o", "w", "n">>
TypeNumber == <<"n", "u", "m", "b", "e", "r">>
TypeString == <<"s", "t", "r", "i", "n", "g">>
TypeDimension == <<"d", "i", "m", "e", "n", "s", "i", "o", "n">>
JsonNull == [kind |-> "null", num |-> 0, str |-> <<>>, entries |-> <<>>]
Member(key, val) == [key |-> key, val |-> val]

\* key in o
HasKey(o, key) == \E i \in 1..Len(o.entries) : o.entries[i].key = key

\* o[key]: the member's value, undefined if there is none
Get(o, key) ==
    IF HasKey(o, key)
    THEN o.entries[CHOOSE i \in 1..Len(o.entries) : o.entries[i].key = key].val
    ELSE Undef

\* a ?? b
Coalesce(a, b) == IF a \notin {Undef, JsonNull} THEN a ELSE b

RECURSIVE JSONstringify(_)
RECURSIVE StringifyMembers(_, _)
\* JSON.stringify(value): members in insertion order, undefined for undefined
JSONstringify(v) ==
    CASE v.kind = "number" -> ToString(v.num)
      [] v.kind = "string" -> "\"" \o Text(v.str) \o "\""
      [] v.kind = "object" -> "{" \o StringifyMembers(v.entries, 1) \o "}"
      [] v.kind = "null" -> "null"
      [] v.kind = "undefined" -> "undefined"

StringifyMembers(entries, i) ==
    IF i > Len(entries) THEN ""
    ELSE (IF i > 1 THEN "," ELSE "")
         \o "\"" \o entries[i].key \o "\":" \o JSONstringify(entries[i].val)
         \o StringifyMembers(entries, i + 1)

\* key.startsWith("$")
IsMetadataKey(key) == key \in {"$value", "$type", "$description"}

\* prefix ? `${prefix}.${key}` : key
JoinPath(prefix, key) == IF prefix # "" THEN prefix \o "." \o key ELSE key

RECURSIVE flattenTokens(_, _)
RECURSIVE FlattenEntries(_, _, _)
\* flattenTokens(obj, prefix): the Map of path -> {value, type}
flattenTokens(obj, prefix) ==
    IF obj.kind # "object" THEN <<>>
    ELSE IF HasKey(obj, "$value") \/ HasKey(obj, "value")
    THEN prefix :> [value |-> Coalesce(Get(obj, "$value"), Get(obj, "value")),
                    type |-> Coalesce(Get(obj, "$type"), Get(obj, "type"))]
    ELSE FlattenEntries(obj.entries, prefix, Len(obj.entries))

\* the for-loop over Object.entries(o), up to entry n: a later set() of a
\* path replaces an earlier one
FlattenEntries(entries, prefix, n) ==
    IF n = 0 THEN <<>>
    ELSE LET key == entries[n].key
             value == entries[n].val
             newPrefix == JoinPath(prefix, key)
             before == FlattenEntries(entries, prefix, n - 1)
         IN IF IsMetadataKey(key) THEN before
            ELSE IF value.kind = "object"
            THEN flattenTokens(value, newPrefix) @@ before
            ELSE (newPrefix :> [value |-> value, type |-> Str(TypeUnknown)]) @@ before

HasTokenMutant(map, path) == TRUE

\* generated.get(path) is truthy / refs.has(path)
HasToken(map, path) == path \in DOMAIN map

\* JSON.stringify(refValue.value) !== JSON.stringify(genValue.value)
ValuesDiffer(refValue, genValue) ==
    JSONstringify(refValue.value) # JSONstringify(genValue.value)

\* refValue.type !== genValue.type ? "type-mismatch" : "mismatch"
DiffType(refValue, genValue) ==
    IF refValue.type # genValue.type THEN "type-mismatch" ELSE "mismatch"

\* compareTokenMaps(generated, refs, layer); the lists hold one entry per
\* path, so they are kept as sets
compareTokenMaps(gen, refs) ==
    LET both == {p \in DOMAIN refs : HasToken(gen, p)}
    IN [missing |-> {p \in DOMAIN refs : ~HasToken(gen, p)},
        extra |-> {p \in DOMAIN gen : ~HasToken(refs, p)},
        mismatched |-> {[path |-> p, type |-> DiffType(refs[p], gen[p])] :
                           p \in {q \in both : ValuesDiffer(refs[q], gen[q])}},
        total |-> Cardinality(DOMAIN refs),
        matched |-> Cardinality({q \in both : ~ValuesDiffer(refs[q], gen[q])})]

\* A design token leaf {"$value": v, "$type": t}.
Token(v, t) == Obj(<<Member("$value", v), Member("$type", Str(t))>>)

XY == Obj(<<Member("x", Num(1)), Member("y", Num(2))>>)
YX == Obj(<<Member("y", Num(2)), Member("x", Num(1))>>)

\* a group with a description and one member
Group(v) == Obj(<<Member("$description", Str(<<"g">>)), Member("d", v)>>)

NoMember == Undef

\* What a token file may hold under each of its top-level keys.
MemberChoices ==
    [a |-> {NoMember, Num(1), Num(2), Token(Num(1), TypeNumber), Token(Num(1), TypeString)},
     b |-> {NoMember, Num(2), Token(XY, TypeDimension), Token(YX, TypeDimension)},
     c |-> {NoMember, Num(3), Group(Num(1)), Group(Token(Num(1), TypeNumber))}]

Present(key, val) == IF val = NoMember THEN <<>> ELSE <<Member(key, val)>>

TokenFiles ==
    {Obj(Present("a", va) \o Present("b", vb) \o Present("c", vc)) :
        va \in MemberChoices.a, vb \in MemberChoices.b, vc \in MemberChoices.c}

InitDiff ==
    /\ dpc = "read"
    /\ refTokens \in TokenFiles
    /\ genTokens \in TokenFiles
    /\ refMap = <<>>
    /\ genMap = <<>>
    /\ report = <<>>
    /\ IdleOrch
    /\ IdleWatch
    /\ IdleGen
    /\ IdleFn
    /\ IdleVal
    /\ IdleBundle

\* const refMap = flattenTokens(refTokens); const genMap = flattenTokens(genTokens)
Flatten ==
    /\ dpc = "read"
    /\ refMap' = flattenTokens(refTokens, "")
    /\ genMap' = flattenTokens(genTokens, "")
    /\ dpc' = "flattened"
    /\ UNCHANGED <<refTokens, genTokens, report>>
    /\ UNCHANGED restOfDiff

\* const report = compareTokenMaps(genMap, refMap, layer.name)
Compare ==
    /\ dpc = "flattened"
    /\ report' = compareTokenMaps(genMap, refMap)
    /\ dpc' = "compared"
    /\ UNCHANGED <<refTokens, genTokens, refMap, genMap>>
    /\ UNCHANGED restOfDiff

NextDiff ==
    \/ Flatten
    \/ Compare

SpecDiff == InitDiff /\ [][NextDiff]_vars

(***************************************************************************)
(* Claims about the diff engine (checked under SpecDiff)                   *)
(***************************************************************************)
RECURSIVE StructEq(_, _)
\* structural equality of two JSON values
StructEq(v, w) ==
    /\ v.kind = w.kind
    /\ v.num = w.num
    /\ v.str = w.str
    /\ {m.key : m \in Range(v.entries)} = {m.key : m \in Range(w.entries)}
    /\ \A m \in Range(v.entries) : StructEq(m.val, Get(w, m.key))

InBoth == DOMAIN refMap \cap DOMAIN genMap

\* C11: for every path in both maps the diff reports type-mismatch if the
\* types differ (whether or not the values are equal), otherwise mismatch
\* if the values are structurally unequal, otherwise it is counted matched.
C11_ClassificationByTypeThenValue ==
    dpc = "compared" =>
        /\ \A p \in InBoth :
              IF refMap[p].type # genMap[p].type
              THEN [path |-> p, type |-> "type-mismatch"] \in report.mismatched
              ELSE IF ~StructEq(refMap[p].value, genMap[p].value)
              THEN [path |-> p, type |-> "mismatch"] \in report.mismatched
              ELSE p \notin {d.path : d \in report.mismatched}
        /\ report.matched =
              Cardinality({p \in InBoth :
                              /\ refMap[p].type = genMap[p].type
                              /\ StructEq(refMap[p].value, genMap[p].value)})

ExampleRef == Obj(<<Member("a", Num(1)), Member("b", Num(2))>>)
ExampleGen == Obj(<<Member("a", Num(1)), Member("c", Num(3))>>)

\* C12: missing is exactly the reference paths absent from generated, extra
\* exactly the generated paths absent from reference, total the number of
\* reference paths, and matched + |missing| + |mismatched| = total; the
\* maps {a:1,b:2} and {a:1,c:3} give missing b, extra c, nothing mismatched
\* and one matched.
C12_MissingExtraAndCounts ==
    dpc = "compared" =>
        /\ report.missing = DOMAIN refMap \ DOMAIN genMap
        /\ report.extra = DOMAIN genMap \ DOMAIN refMap
        /\ report.total = Cardinality(DOMAIN refMap)
        /\ report.matched + Cardinality(report.missing)
              + Cardinality(report.mismatched) = report.total
        /\ (refTokens = ExampleRef /\ genTokens = ExampleGen) =>
              /\ report.missing = {"b"}
              /\ report.extra = {"c"}
              /\ report.mismatched = {}
              /\ report.matched = 1

\* C12 witness: the comparison of {a:1,b:2} with {a:1,c:3} has been made.
C12_Witness ==
    /\ dpc = "compared"
    /\ refTokens = ExampleRef
    /\ genTokens = ExampleGen
    /\ report.total = 2

(***************************************************************************)
(* Part 5: cycle detection, _detectCircularRefs of src/commands/           *)
(* validate.js, applied to a Map of path -> token.                         *)
(***************************************************************************)
\* value.startsWith("{")
StartsWithBrace(s) == s # <<>> /\ s[1] = "{"

\* value.endsWith("}")
EndsWithBrace(s) == s # <<>> /\ s[Len(s)] = "}"

\* value.slice(1, -1)
SliceInner(s) == SubSeq(s, 2, Len(s) - 1)

\* the string "{path}" for a path given by its characters
Braced(chars) == Str(<<"{">> \o chars \o <<"}">>)

Null == [found |-> FALSE, path |-> ""]
Found(path) == [found |-> TRUE, path |-> path]

\* if (cycle): null and the empty string are falsy
Truthy(cycle) == cycle.found /\ cycle.path # ""

RECURSIVE findCycle(_, _, _)
\* findCycle(path, visited) over the Map tokens
findCycle(tokens, path, visited) ==
    IF path \in visited THEN Found(path)
    ELSE IF path \notin DOMAIN tokens THEN Null
    ELSE LET t == tokens[path]
             value == Coalesce(Get(t, "$value"), Get(t, "value"))
         IN IF value.kind # "string" \/ ~StartsWithBrace(value.str) THEN Null
            ELSE findCycle(tokens, Text(SliceInner(value.str)), visited \cup {path})

\* _detectCircularRefs(tokens, file): one issue per starting path with a
\* cycle; the message is `${path} -> ${cycle}`
detectCircularRefs(tokens) ==
    {[path |-> p, code |-> "CIRCULAR_REF", severity |-> "error",
      message |-> <<p, findCycle(tokens, p, {}).path>>] :
        p \in {q \in DOMAIN tokens : Truthy(findCycle(tokens, q, {}))}}

CyclePaths == {"a", "b", "c"}

\* What the Map may hold for a path; d is a path the Map never has.
CycleTokenChoices ==
    {Obj(<<Member("$value", v)>>) :
        v \in {Num(1), Braced(<<"a">>), Braced(<<"b">>), Braced(<<"c">>), Braced(<<"d">>)}}
    \cup {Obj(<<Member("value", Braced(<<"a">>))>>)}

CycleInputs ==
    UNION {[D -> CycleTokenChoices] : D \in SUBSET CyclePaths}

InitCycles ==
    /\ fpc = "call"
    /\ fin \in CycleInputs
    /\ fout = <<>>
    /\ IdleOrch
    /\ IdleWatch
    /\ IdleGen
    /\ IdleDiff
    /\ IdleVal
    /\ IdleBundle

DetectCircularRefs ==
    /\ fpc = "call"
    /\ fout' = detectCircularRefs(fin)
    /\ fpc' = "return"
    /\ UNCHANGED fin
    /\ UNCHANGED restOfFn

NextCycles == DetectCircularRefs

SpecCycles == InitCycles /\ [][NextCycles]_vars

\* the token at path p is a reference to path q
RefersTo(tokens, p, q) ==
    /\ p \in DOMAIN tokens
    /\ Coalesce(Get(tokens[p], "$value"), Get(tokens[p], "value")) = Braced(<<q>>)

\* C13: when two tokens reference each other, a circular-reference error is
\* reported for each of the two, and each error names the other token.
C13_MutualReferenceNamesOther ==
    fpc = "return" =>
        \A p, q \in CyclePaths :
            (p # q /\ RefersTo(fin, p, q) /\ RefersTo(fin, q, p)) =>
                \E issue \in fout :
                    /\ issue.path = p
                    /\ issue.code = "CIRCULAR_REF"
                    /\ issue.message[2] = q

(***************************************************************************)
(* The same function call by call: the loop of _detectCircularRefs over    *)
(* the starting paths and, for each, the chain of findCycle calls.  fout   *)
(* holds the locals: the starting paths still to do, the current start,    *)
(* the arguments path and visited of the pending call, the number of hops  *)
(* made from the start, and the issues pushed so far.                      *)
(***************************************************************************)
VisitedHasMutant(visited, path) == FALSE

\* visited.has(path)
VisitedHas(visited, path) == path \in visited

Locals(todo, start, path, visited, hops, issues) ==
    [todo |-> todo, start |-> start, path |-> path, visited |-> visited,
     hops |-> hops, issues |-> issues]

InitCycleWalk ==
    /\ fpc = "loop"
    /\ fin \in CycleInputs
    /\ fout = Locals(DOMAIN fin, "", "", {}, 0, {})
    /\ IdleOrch
    /\ IdleWatch
    /\ IdleGen
    /\ IdleDiff
    /\ IdleVal
    /\ IdleBundle

\* for (const [path] of tokens): const cycle = findCycle(path, new Set())
NextStartingPath ==
    /\ fpc = "loop"
    /\ \E p \in fout.todo :
          fout' = Locals(fout.todo \ {p}, p, p, {}, 0, fout.issues)
    /\ fpc' = "findCycle"
    /\ UNCHANGED fin
    /\ UNCHANGED restOfFn

\* The call findCycle(path, visited) returned cycle to the loop: the push
\* of the issue when cycle is truthy.
CycleReturned(cycle) ==
    /\ fpc' = "loop"
    /\ fout' = [fout EXCEPT !.issues =
                    IF Truthy(cycle)
                    THEN @ \cup {[path |-> fout.start, code |-> "CIRCULAR_REF",
                                  severity |-> "error",
                                  message |-> <<fout.start, cycle.path>>]}
                    ELSE @]

\* One call of findCycle: a return, or the hop to the referenced path.
FindCycleCall ==
    /\ fpc = "findCycle"
    /\ IF VisitedHas(fout.visited, fout.path) THEN CycleReturned(Found(fout.path))
       ELSE IF fout.path \notin DOMAIN fin THEN CycleReturned(Null)
       ELSE LET t == fin[fout.path]
                value == Coalesce(Get(t, "$value"), Get(t, "value"))
            IN IF value.kind # "string" \/ ~StartsWithBrace(value.str)
               THEN CycleReturned(Null)
               ELSE /\ fout' = [fout EXCEPT !.path = Text(SliceInner(value.str)),
                                            !.visited = @ \cup {fout.path},
                                            !.hops = @ + 1]
                    /\ UNCHANGED fpc
    /\ UNCHANGED fin
    /\ UNCHANGED restOfFn

\* return issues
ReturnIssues ==
    /\ fpc = "loop"
    /\ fout.todo = {}
    /\ fpc' = "return"
    /\ UNCHANGED <<fin, fout>>
    /\ UNCHANGED restOfFn

NextCycleWalk ==
    \/ NextStartingPath
    \/ FindCycleCall
    \/ ReturnIssues

\* The function runs on one thread without yielding: a step that can be
\* taken is taken.
SpecCycleWalk == InitCycleWalk /\ [][NextCycleWalk]_vars /\ WF_vars(NextCycleWalk)

\* For the current starting path, every hop left a different path of the
\* map: the hops are as many as the visited paths, all of them in the map.
OneHopPerPath ==
    fpc \in {"loop", "findCycle", "return"} =>
        /\ fout.hops = Cardinality(fout.visited)
        /\ fout.visited \subseteq DOMAIN fin

\* C26: cycle detection terminates for every finite token map (self
\* references, cycles of any length, chains that enter a cycle from outside
\* included), and for each starting path it follows at most one hop per
\* distinct path.
C26_CycleDetectionTerminates == []OneHopPerPath /\ <>(fpc = "return")

\* C26 witness: from a starting path outside the cycle the walk has entered
\* a cycle of two other paths and has come back to the loop with an issue.
C26_Witness ==
    /\ fpc = "loop"
    /\ fout.hops = 3
    /\ fout.start \notin {fout.path}
    /\ \E issue \in fout.issues : issue.path = fout.start

\* Call by call, the function returns what detectCircularRefs gives.
WalkAgrees == fpc = "return" => fout.issues = detectCircularRefs(fin)

(***************************************************************************)
(* Part 6: the validate command, src/commands/validate.js.                 *)
(***************************************************************************)
DTCG_TYPES ==
    <<<<"c", "o", "l", "o", "r">>,
      <<"d", "i", "m", "e", "n", "s", "i", "o", "n">>,
      <<"f", "o", "n", "t", "F", "a", "m", "i", "l", "y">>,
      <<"f", "o", "n", "t", "W", "e", "i", "g", "h", "t">>,
      <<"d", "u", "r", "a", "t", "i", "o", "n">>,
      <<"c", "u", "b", "i", "c", "B", "e", "z", "i", "e", "r">>,
      <<"n", "u", "m", "b", "e", "r">>,
      <<"s", "t", "r", "o", "k", "e", "S", "t", "y", "l", "e">>,
      <<"b", "o", "r", "d", "e", "r">>,
      <<"t", "r", "a", "n", "s", "i", "t", "i", "o", "n">>,
      <<"s", "h", "a", "d", "o", "w">>,
      <<"g", "r", "a", "d", "i", "e", "n", "t">>,
      <<"t", "y", "p", "o", "g", "r", "a", "p", "h", "y">>,
      <<"f", "o", "n", "t", "S", "t", "y", "l", "e">>>>

TypeColor == DTCG_TYPES[1]

Issue(path, severity, code) == [path |-> path, severity |-> severity, code |-> code]

\* issues.push(issue) under a condition
PushIf(cond, issue) == IF cond THEN <<issue>> ELSE <<>>

\* a brace reference: value.startsWith("{") && value.endsWith("}")
IsReference(value) ==
    value.kind = "string" /\ StartsWithBrace(value.str) /\ EndsWithBrace(value.str)

\* validateToken(token, tokenPath, file, allPaths) for an object token
validateToken(t, tokenPath, paths) ==
    LET hasDtcgValue == HasKey(t, "$value")
        hasDtcgType == HasKey(t, "$type")
        hasLegacyValue == HasKey(t, "value")
        hasLegacyType == HasKey(t, "type")
        type == Coalesce(Get(t, "$type"), Get(t, "type"))
        value == Coalesce(Get(t, "$value"), Get(t, "value"))
    IN PushIf(~hasDtcgValue /\ ~hasLegacyValue, Issue(tokenPath, "error", "MISSING_VALUE"))
       \o PushIf(~hasDtcgType /\ ~hasLegacyType, Issue(tokenPath, "warning", "MISSING_TYPE"))
       \o PushIf((hasDtcgValue /\ hasLegacyValue) \/ (hasDtcgType /\ hasLegacyType),
                 Issue(tokenPath, "warning", "MIXED_FORMAT"))
       \o PushIf(hasLegacyValue /\ ~hasDtcgValue, Issue(tokenPath, "info", "LEGACY_FORMAT"))
       \o PushIf(/\ type.kind = "string"
                 /\ type.str # <<>>
                 /\ ~Includes(DTCG_TYPES, type.str),
                 Issue(tokenPath, "warning", "UNKNOWN_TYPE"))
       \o PushIf(value \in {Str(<<>>), JsonNull, Undef},
                 Issue(tokenPath, "error", "EMPTY_VALUE"))
       \o PushIf(IsReference(value) /\ Text(SliceInner(value.str)) \notin paths,
                 Issue(tokenPath, "error", "UNRESOLVED_REF"))

\* "$value" in o || "value" in o
IsTokenNode(o) == HasKey(o, "$value") \/ HasKey(o, "value")

RECURSIVE TokenNodes(_, _)
RECURSIVE TokenNodesOfEntries(_, _, _)
\* The walk shared by collectTokenPaths, validate and checkDuplicates: the
\* token nodes of a tree with their paths, in the order they are visited.
TokenNodes(obj, prefix) ==
    IF obj.kind # "object" THEN <<>>
    ELSE IF IsTokenNode(obj) THEN <<[path |-> prefix, node |-> obj]>>
    ELSE TokenNodesOfEntries(obj.entries, prefix, 1)

TokenNodesOfEntries(entries, prefix, i) ==
    IF i > Len(entries) THEN <<>>
    ELSE (IF IsMetadataKey(entries[i].key) THEN <<>>
          ELSE TokenNodes(entries[i].val, JoinPath(prefix, entries[i].key)))
         \o TokenNodesOfEntries(entries, prefix, i + 1)

\* collectTokenPaths(obj): the Set of the token nodes' paths
collectTokenPaths(obj) == {n.path : n \in Range(TokenNodes(obj, ""))}

\* The file's text is not JSON.
Unparseable == [kind |-> "unparseable", num |-> 0, str |-> <<>>, entries |-> <<>>]

ParseFailsMutant(content) == FALSE

\* JSON.parse(fs.readFileSync(filePath)) throws
ParseFails(content) == content = Unparseable

RECURSIVE Flat(_)
\* the concatenation of a sequence of sequences
Flat(ss) == IF ss = <<>> THEN <<>> ELSE Head(ss) \o Flat(Tail(ss))

WithSeverity(issues, severity) == SelectSeq(issues, LAMBDA i : i.severity = severity)

\* checkDuplicates(content): a warning for each token node whose path was seen
checkDuplicates(nodes) ==
    Flat([i \in 1..Len(nodes) |->
            PushIf(\E j \in 1..(i - 1) : nodes[j].path = nodes[i].path,
                   Issue(nodes[i].path, "warning", "DUPLICATE"))])

\* validateFile(filePath, allPaths)
validateFile(fileName, content, paths) ==
    IF ParseFails(content)
    THEN [file |-> fileName,
          errors |-> <<Issue("", "error", "PARSE_ERROR")>>,
          warnings |-> <<>>,
          info |-> <<>>,
          tokenCount |-> 0,
          valid |-> FALSE]
    ELSE LET nodes == TokenNodes(content, "")
             issues == Flat([i \in 1..Len(nodes) |->
                                validateToken(nodes[i].node, nodes[i].path, paths)])
             errors == WithSeverity(issues, "error")
         IN [file |-> fileName,
             errors |-> errors,
             warnings |-> WithSeverity(issues, "warning") \o checkDuplicates(nodes),
             info |-> WithSeverity(issues, "info"),
             tokenCount |-> Len(nodes),
             valid |-> errors = <<>>]

AllPathsMutant(d, names) ==
    IF names = <<>> \/ ParseFails(d[names[1]]) THEN {}
    ELSE collectTokenPaths(d[names[1]])

\* the loop that fills allPaths: files that do not parse are passed over
AllPaths(d, names) ==
    UNION {collectTokenPaths(d[names[i]]) :
              i \in {j \in 1..Len(names) : ~ParseFails(d[names[j]])}}

\* readdirSync(...).filter(.json), in the order of the directory listing
ValFileNames == <<"primitives.json", "semantic.json">>

\* What a token file may hold.
ValDocs ==
    {Unparseable,
     Obj(<<>>),
     Obj(<<Member("a", Token(Num(1), TypeNumber))>>),
     Obj(<<Member("a", Token(Braced(<<"b">>), TypeColor))>>),
     Obj(<<Member("b", Obj(<<Member("$value", Num(1))>>))>>),
     Obj(<<Member("b", Obj(<<Member("value", Braced(<<"a">>)),
                             Member("type", Str(TypeColor))>>))>>),
     Obj(<<Member("c", Braced(<<"z">>)),
           Member("g", Obj(<<Member("$description", Str(<<"g">>)),
                             Member("d", Token(Str(<<>>), TypeUnknown))>>))>>),
     Obj(<<Member("e", Obj(<<Member("$type", Str(TypeColor))>>)),
           Member("f", Token(Braced(<<"g", ".", "d">>), TypeColor))>>),
     Obj(<<Member("p", Token(Braced(<<"q">>), TypeColor)),
           Member("q", Token(Braced(<<"p">>), TypeColor))>>)}

InitValidate ==
    /\ vpc = "main"
    /\ vargs \in [strict : BOOLEAN, dryRun : BOOLEAN, dirExists : BOOLEAN]
    /\ dir \in UNION {[D -> ValDocs] : D \in SUBSET Range(ValFileNames)}
    /\ (~vargs.dirExists) => dir = <<>>
    /\ tokenFiles = <<>>
    /\ allPaths = {}
    /\ vidx = 0
    /\ reports = <<>>
    /\ written = FALSE
    /\ vexit = Running
    /\ IdleOrch
    /\ IdleWatch
    /\ IdleGen
    /\ IdleDiff
    /\ IdleFn
    /\ IdleBundle

\* process.exit(code)
VExit(code) ==
    /\ vpc' = "exited"
    /\ vexit' = code

\* main execution up to the validation loop: the directory check, the
\* listing, and the collection of all token paths
CollectPaths ==
    /\ vpc = "main"
    /\ LET names == Filter(ValFileNames, DOMAIN dir)
       IN IF ~vargs.dirExists \/ names = <<>>
          THEN /\ VExit(1)
               /\ UNCHANGED <<tokenFiles, allPaths, vidx>>
          ELSE /\ tokenFiles' = names
               /\ allPaths' = AllPaths(dir, names)
               /\ vidx' = 1
               /\ vpc' = "validate"
               /\ UNCHANGED vexit
    /\ UNCHANGED <<vargs, dir, reports, written>>
    /\ UNCHANGED restOfVal

\* one turn of "for (const file of tokenFiles)": validateFile, reports.push
ValidateNextFile ==
    /\ vpc = "validate"
    /\ vidx <= Len(tokenFiles)
    /\ reports' = Append(reports,
                         validateFile(tokenFiles[vidx], dir[tokenFiles[vidx]], allPaths))
    /\ vidx' = vidx + 1
    /\ UNCHANGED <<vpc, vargs, dir, tokenFiles, allPaths, written, vexit>>
    /\ UNCHANGED restOfVal

\* after the loop: the report is written unless --dry-run, and the exit status
Finish ==
    /\ vpc = "validate"
    /\ vidx > Len(tokenFiles)
    /\ IF vargs.dryRun
       THEN /\ VExit(0)
            /\ UNCHANGED written
       ELSE LET allValid == \A i \in 1..Len(reports) : reports[i].valid
                hasWarnings == \E i \in 1..Len(reports) : reports[i].warnings # <<>>
            IN /\ written' = TRUE
               /\ IF ~allValid THEN VExit(1)
                  ELSE IF vargs.strict /\ hasWarnings THEN VExit(1)
                  ELSE VExit(0)
    /\ UNCHANGED <<vargs, dir, tokenFiles, allPaths, vidx, reports>>
    /\ UNCHANGED restOfVal

NextValidate ==
    \/ CollectPaths
    \/ ValidateNextFile
    \/ Finish

SpecValidate == InitValidate /\ [][NextValidate]_vars

(***************************************************************************)
(* Claims about the validate command (checked under SpecValidate)          *)
(***************************************************************************)
\* Every file of the listing has been validated.
AllValidated == tokenFiles # <<>> /\ Len(reports) = Len(tokenFiles)

\* The token paths of all the token files that parse.
PathsOfAllFiles ==
    UNION {collectTokenPaths(dir[f]) : f \in {g \in DOMAIN dir : dir[g] # Unparseable}}

\* The value of a token leaf, in either leaf shape.
LeafValue(node) == Coalesce(Get(node, "$value"), Get(node, "value"))

\* The path a brace reference names.
TargetOf(value) == Text(SliceInner(value.str))

HasIssue(issues, path, code) ==
    \E k \in 1..Len(issues) : issues[k].path = path /\ issues[k].code = code

\* C14: for every token leaf whose value is a brace reference {p}, the
\* report of its file has an unresolved-reference error for the leaf if and
\* only if p is not among the token paths of all the token files of the
\* directory.
C14_UnresolvedIffAbsentFromAllFiles ==
    AllValidated =>
        \A i \in 1..Len(reports) :
            \A n \in Range(TokenNodes(dir[tokenFiles[i]], "")) :
                IsReference(LeafValue(n.node)) =>
                    (HasIssue(reports[i].errors, n.path, "UNRESOLVED_REF")
                        <=> TargetOf(LeafValue(n.node)) \notin PathsOfAllFiles)

\* C14 witness: a leaf refers to a path that only the other file defines and
\* has no unresolved-reference error.
C14_Witness ==
    /\ vpc = "exited"
    /\ AllValidated
    /\ \E i \in 1..Len(reports) :
          \E n \in Range(TokenNodes(dir[tokenFiles[i]], "")) :
              /\ IsReference(LeafValue(n.node))
              /\ TargetOf(LeafValue(n.node)) \notin collectTokenPaths(dir[tokenFiles[i]])
              /\ TargetOf(LeafValue(n.node)) \in PathsOfAllFiles
              /\ ~HasIssue(reports[i].errors, n.path, "UNRESOLVED_REF")

\* C15: once the files of the directory have been validated, the validate
\* command exits with a non-zero status if and only if a validated file has
\* an error-severity issue, or strict mode is on and a file has a warning.
C15_FailureIffErrorOrStrictWarning ==
    (vpc = "exited" /\ AllValidated) =>
        (vexit # 0 <=>
            \/ \E i \in 1..Len(reports) : reports[i].errors # <<>>
            \/ vargs.strict /\ \E i \in 1..Len(reports) : reports[i].warnings # <<>>)

\* C16: a token file that does not parse gets exactly one file-level
\* PARSE_ERROR entry and an invalid report, and every other file of the
\* directory is still validated and reported.
C16_ParseErrorIsPerFile ==
    (vpc = "exited" /\ tokenFiles # <<>>) =>
        /\ Len(reports) = Len(tokenFiles)
        /\ \A i \in 1..Len(reports) :
              /\ reports[i].file = tokenFiles[i]
              /\ IF dir[tokenFiles[i]] = Unparseable
                 THEN /\ reports[i].errors = <<Issue("", "error", "PARSE_ERROR")>>
                      /\ ~reports[i].valid
                 ELSE /\ ~HasIssue(reports[i].errors, "", "PARSE_ERROR")
                      /\ reports[i].tokenCount = Len(TokenNodes(dir[tokenFiles[i]], ""))
                      /\ reports[i].valid <=> reports[i].errors = <<>>

\* C16 witness: the first file does not parse, the second one does and its
\* token has been counted.
C16_Witness ==
    /\ vpc = "exited"
    /\ Len(tokenFiles) = 2
    /\ dir[tokenFiles[1]] = Unparseable
    /\ dir[tokenFiles[2]] # Unparseable
    /\ Len(reports) = 2
    /\ reports[2].tokenCount > 0

\* The token nodes of all the token files that parse.
NodesOfAllFiles ==
    UNION {Range(TokenNodes(dir[f], "")) : f \in {g \in DOMAIN dir : dir[g] # Unparseable}}

\* The reference hops between token paths: from a reference leaf to the
\* path it names.
RefEdges ==
    {<<n.path, TargetOf(LeafValue(n.node))>> :
        n \in {m \in NodesOfAllFiles : IsReference(LeafValue(m.node))}}

RECURSIVE PathsAfter(_, _)
\* The paths that k hops lead to from the paths S
PathsAfter(S, k) ==
    IF k = 0 THEN S
    ELSE PathsAfter({e[2] : e \in {f \in RefEdges : f[1] \in S}}, k - 1)

\* The paths that one or more hops lead to from path p
ReachedFrom(p) == UNION {PathsAfter({p}, k) : k \in 1..Cardinality(RefEdges)}

\* The reference chain that starts at p comes back to a path it has visited.
ChainRevisits(p) == \E q \in ReachedFrom(p) \cup {p} : q \in ReachedFrom(q)

\* C22: when the validate command has validated token files that hold a
\* reference cycle, the report of the file has a CIRCULAR_REF error for
\* every starting path whose reference chain revisits a path, and that
\* report is invalid.
C22_CycleReportedByValidate ==
    (vpc = "exited" /\ AllValidated) =>
        \A i \in 1..Len(reports) :
            \A n \in Range(TokenNodes(dir[tokenFiles[i]], "")) :
                ChainRevisits(n.path) =>
                    /\ HasIssue(reports[i].errors, n.path, "CIRCULAR_REF")
                    /\ ~reports[i].valid

\* The validate command never reports a circular reference: the detection
\* function is not called from validateFile or from the main execution.
NoCircularRefIssue ==
    \A i \in 1..Len(reports) :
        \A k \in 1..Len(reports[i].errors) : reports[i].errors[k].code # "CIRCULAR_REF"

\* A file whose two tokens refer to each other has been validated and found valid.
CycleFoundValid ==
    /\ vpc = "exited"
    /\ AllValidated
    /\ \E i \in 1..Len(reports) :
          /\ reports[i].valid
          /\ \E n \in Range(TokenNodes(dir[tokenFiles[i]], "")) :
                /\ ChainRevisits(n.path)
                /\ TargetOf(LeafValue(n.node)) \in collectTokenPaths(dir[tokenFiles[i]])

RECURSIVE TypedWithoutValue(_, _)
\* The paths of the nodes of a tree that declare a type ($type or type),
\* have neither $value nor value, and have no member besides metadata.
TypedWithoutValue(obj, prefix) ==
    IF obj.kind # "object" \/ IsTokenNode(obj) THEN {}
    ELSE LET members == {i \in 1..Len(obj.entries) : ~IsMetadataKey(obj.entries[i].key)}
         IN (IF (HasKey(obj, "$type") \/ HasKey(obj, "type")) /\ members = {}
             THEN {prefix} ELSE {})
            \cup UNION {TypedWithoutValue(obj.entries[i].val,
                                          JoinPath(prefix, obj.entries[i].key)) : i \in members}

\* C25: a token node that declares a type but has no value has a
\* MISSING_VALUE error in the validation report of its file.
C25_MissingValueReported ==
    (vpc = "exited" /\ AllValidated) =>
        \A i \in 1..Len(reports) :
            dir[tokenFiles[i]] # Unparseable =>
                \A path \in TypedWithoutValue(dir[tokenFiles[i]], "") :
                    HasIssue(reports[i].errors, path, "MISSING_VALUE")

\* No report of the validate command holds a MISSING_VALUE issue: validate
\* calls validateToken only for nodes that have $value or value.
NoMissingValueIssue ==
    \A i \in 1..Len(reports) :
        \A k \in 1..Len(reports[i].errors) : reports[i].errors[k].code # "MISSING_VALUE"

\* Called directly on a node without a value, validateToken does push the issue.
ValidateTokenFlagsMissingValue ==
    HasIssue(validateToken(Obj(<<Member("$type", Str(TypeColor))>>), "e", {}),
             "e", "MISSING_VALUE")

RECURSIVE BareLeaves(_, _)
\* The leaves of a tree that are bare values (no value/type wrapper), as
\* the tier builders write them, with their paths.
BareLeaves(obj, prefix) ==
    IF obj.kind # "object" THEN {[path |-> prefix, value |-> obj]}
    ELSE IF IsTokenNode(obj) THEN {}
    ELSE UNION {BareLeaves(obj.entries[i].val, JoinPath(prefix, obj.entries[i].key)) :
                    i \in {j \in 1..Len(obj.entries) : ~IsMetadataKey(obj.entries[j].key)}}

\* The paths of all leaves, wrapped or bare, of the token files that parse.
LeafPathsOfAllFiles ==
    PathsOfAllFiles
    \cup UNION {{l.path : l \in BareLeaves(dir[f], "")} :
                   f \in {g \in DOMAIN dir : dir[g] # Unparseable}}

\* C23: when validate has run on tier files whose leaves are bare values,
\* every leaf has been visited and counted, and every reference leaf whose
\* target path exists in no tier has an unresolved-reference error.
C23_BareLeavesValidated ==
    (vpc = "exited" /\ AllValidated) =>
        \A i \in 1..Len(reports) :
            dir[tokenFiles[i]] # Unparseable =>
                LET content == dir[tokenFiles[i]]
                IN /\ reports[i].tokenCount =
                          Len(TokenNodes(content, "")) + Cardinality(BareLeaves(content, ""))
                   /\ \A l \in BareLeaves(content, "") :
                          (IsReference(l.value) /\ TargetOf(l.value) \notin LeafPathsOfAllFiles)
                              => HasIssue(reports[i].errors, l.path, "UNRESOLVED_REF")

\* What the walk does with bare leaves: none is counted and none is reported.
BareLeavesSkipped ==
    \A i \in 1..Len(reports) :
        dir[tokenFiles[i]] # Unparseable =>
            /\ reports[i].tokenCount = Len(TokenNodes(dir[tokenFiles[i]], ""))
            /\ \A l \in BareLeaves(dir[tokenFiles[i]], "") :
                  \A k \in 1..Len(reports[i].errors) : reports[i].errors[k].path # l.path

(***************************************************************************)
(* Part 7: the scale generators of src/generators/primitives.js, entry by  *)
(* entry: which key each kept value is stored under.  Values are whole     *)
(* pixel magnitudes.                                                       *)
(***************************************************************************)
MaxGroup == 120

\* inRange(min, max)(value)
inRange(min, max, value) == value >= min /\ value <= max

\* uniqueSorted(values): the distinct values in ascending order
uniqueSorted(values) == SortNumeric(values)

\* generateSpacingScale.assignStep: the step a value is stored under
assignStep(base, value) == RoundDiv(value, base)

\* generateSpacingScale(base)(values), as the assignments scale[step] = value
\* in the order they are made
spacingAssignments(base, values) ==
    LET pxValues == uniqueSorted({v \in values : inRange(1, 200, v)})
        kept == SelectSeq(pxValues, LAMBDA v : inRange(1, 50, assignStep(base, v)))
    IN [i \in 1..Len(kept) |-> [value |-> kept[i], key |-> assignStep(base, kept[i])]]

\* generateTypeScale(names)(sizes), as the assignments scale[names[index]] =
\* value; key is the rank of the name in names
typeAssignments(names, sizes) ==
    LET pxSizes == uniqueSorted({v \in sizes : inRange(10, 96, v)})
        kept == SubSeq(pxSizes, 1, Min(Len(pxSizes), Len(names)))
    IN [i \in 1..Len(kept) |-> [value |-> kept[i], key |-> i]]

assignScaleMutant(n, index) == 100 + index * (900 \div Max(n - 1, 1))

\* mapColorScale.assignScale: the key of the colour at index of n colours
assignScale(n, index) == Min(100 + index * (900 \div Max(n - 1, 1)), 950)

\* mapColorScale(colors) for n colours, as the assignments in index order
colorAssignments(n) ==
    [i \in 1..n |-> [value |-> i, key |-> assignScale(n, i - 1)]]

SpacingInputs == SUBSET {2, 4, 5, 6, 8, 12, 198, 201}
TypeInputs == SUBSET ({9, 97} \cup 10..20)

ScaleInputs ==
    {[generator |-> "spacing", values |-> v, n |-> 0] : v \in SpacingInputs}
    \cup {[generator |-> "type", values |-> v, n |-> 0] : v \in TypeInputs}
    \cup {[generator |-> "color", values |-> {}, n |-> k] : k \in 1..MaxGroup}

InitScales ==
    /\ fpc = "call"
    /\ fin \in ScaleInputs
    /\ fout = <<>>
    /\ IdleOrch
    /\ IdleWatch
    /\ IdleGen
    /\ IdleDiff
    /\ IdleVal
    /\ IdleBundle

GenerateSpacingScale ==
    /\ fpc = "call"
    /\ fin.generator = "spacing"
    /\ fout' = spacingAssignments(SpacingBase, fin.values)
    /\ fpc' = "return"
    /\ UNCHANGED fin
    /\ UNCHANGED restOfFn

GenerateTypeScale ==
    /\ fpc = "call"
    /\ fin.generator = "type"
    /\ fout' = typeAssignments(typeScaleNames, fin.values)
    /\ fpc' = "return"
    /\ UNCHANGED fin
    /\ UNCHANGED restOfFn

MapColorScale ==
    /\ fpc = "call"
    /\ fin.generator = "color"
    /\ fout' = colorAssignments(fin.n)
    /\ fpc' = "return"
    /\ UNCHANGED fin
    /\ UNCHANGED restOfFn

NextScales ==
    \/ GenerateSpacingScale
    \/ GenerateTypeScale
    \/ MapColorScale

SpecScales == InitScales /\ [][NextScales]_vars

\* C17: for each scale generator given two or more kept values, the step,
\* name rank or key assigned strictly increases with the rank of the value,
\* so no two kept values share an entry.
C17_ScaleMonotonicity ==
    (fpc = "return" /\ Len(fout) >= 2) =>
        \A i, j \in 1..Len(fout) : i < j => fout[i].key < fout[j].key

\* The key the stated formula gives the colour at index i of n colours.
StatedKey(n, i) ==
    LET step == 900 \div (IF n - 1 > 1 THEN n - 1 ELSE 1)
        key == 100 + i * step
    IN IF key < 950 THEN key ELSE 950

\* The assignments of a colour group follow the stated formula.
KeysAsStated ==
    /\ Len(fout) = fin.n
    /\ \A i \in 1..Len(fout) :
          /\ fout[i].key = StatedKey(fin.n, i - 1)
          /\ fout[i].key >= 100
          /\ fout[i].key <= 950
    /\ fout[1].key = 100

\* C27 as stated: the i-th colour of a group of n >= 1 colours is stored
\* under min(100 + i * floor(900 / max(n - 1, 1)), 950); every key lies in
\* [100, 950], index 0 gets 100 and, for n >= 2, index n - 1 gets at least 900.
C27_ColorKeysAsStated ==
    (fpc = "return" /\ fin.generator = "color") =>
        /\ KeysAsStated
        /\ fin.n >= 2 => fout[fin.n].key >= 900

\* C27 amended: the formula, the range [100, 950] and key 100 for index 0
\* hold for every n >= 1; index n - 1 gets at least 900 for 2 <= n <= 113,
\* and from n = 114 on the last key may be lower (891 for n = 114).
C27_ColorKeysUpTo113 ==
    (fpc = "return" /\ fin.generator = "color") =>
        /\ KeysAsStated
        /\ (fin.n >= 2 /\ fin.n <= 113) => fout[fin.n].key >= 900
        /\ fin.n = 114 => fout[fin.n].key = 891

\* C27 witness: a group of 114 colours has been mapped, its last colour
\* under key 891.
C27_Witness ==
    /\ fpc = "return"
    /\ fin.generator = "color"
    /\ fin.n = 114
    /\ fout[114].key = 891
    /\ fout[1].key = 100

(***************************************************************************)
(* Part 8: colour taxonomy, src/helperUtils/colors.js.  A hex colour is    *)
(* the sequence of its characters; channels are kept as integers 0..255    *)
(* and the fractions of the conversion as exact quotients.                 *)
(***************************************************************************)
HexDigits ==
    <<"0", "1", "2", "3", "4", "5", "6", "7", "8", "9", "a", "b", "c", "d", "e", "f">>

\* parseInt of one hexadecimal digit
HexValue(c) == (CHOOSE i \in 1..Len(HexDigits) : HexDigits[i] = c) - 1

\* parseInt(hexColor.slice(from, from + 2), 16), from counted from 0
ParseChannel(hex, from) == 16 * HexValue(hex[from + 1]) + HexValue(hex[from + 2])

\* hexColor.replace(/[#;\s]*/g, "")
StripHash(hex) == SelectSeq(hex, LAMBDA c : c \notin {"#", ";", " "})

RECURSIVE DoubleEach(_)
\* hexColor.replace(/./g, "$&$&")
DoubleEach(hex) ==
    IF hex = <<>> THEN <<>> ELSE <<Head(hex), Head(hex)>> \o DoubleEach(Tail(hex))

\* the first lines of convertHexColorToHsl: the six digits that are read
NormalizeHex(hexColor) ==
    LET stripped == StripHash(hexColor)
    IN IF Len(stripped) >= 3 /\ Len(stripped) < 6 THEN DoubleEach(stripped) ELSE stripped

\* Math.round(num / den) for num >= 0 and den > 0
RoundQuotient(num, den) == (2 * num + den) \div (2 * den)

\* convertHexColorToHsl(hexColor)
convertHexColorToHsl(hexColor) ==
    LET hex == NormalizeHex(hexColor)
        red == ParseChannel(hex, 0)
        green == ParseChannel(hex, 2)
        blue == ParseChannel(hex, 4)
        maximum == Max(red, Max(green, blue))
        minimum == Min(red, Min(green, blue))
        delta == maximum - minimum
        \* hue * 360 * delta, by the case of the switch that is taken
        hueNum == IF maximum = red
                  THEN 60 * (green - blue) + (IF green < blue THEN 360 * delta ELSE 0)
                  ELSE IF maximum = green
                  THEN 60 * (blue - red) + 120 * delta
                  ELSE 60 * (red - green) + 240 * delta
    IN IF maximum = minimum
       THEN [hue |-> 0, saturation |-> 0,
             lightness |-> RoundQuotient(100 * (maximum + minimum), 510)]
       ELSE [hue |-> RoundQuotient(hueNum, delta),
             saturation |-> IF maximum + minimum > 255
                            THEN RoundQuotient(100 * delta, 510 - maximum - minimum)
                            ELSE RoundQuotient(100 * delta, maximum + minimum),
             lightness |-> RoundQuotient(100 * (maximum + minimum), 510)]

getHueCategoryFromValueMutant(hueValue) ==
    IF hueValue <= 15 \/ hueValue >= 345 THEN "red"
    ELSE IF hueValue < 45 THEN "orange"
    ELSE IF hueValue < 75 THEN "yellow"
    ELSE IF hueValue < 165 THEN "green"
    ELSE IF hueValue < 195 THEN "cyan"
    ELSE IF hueValue < 255 THEN "blue"
    ELSE IF hueValue < 285 THEN "purple"
    ELSE IF hueValue < 345 THEN "pink"
    ELSE "red"

\* getHueCategoryFromValue(hueValue)
getHueCategoryFromValue(hueValue) ==
    IF hueValue < 15 \/ hueValue >= 345 THEN "red"
    ELSE IF hueValue < 45 THEN "orange"
    ELSE IF hueValue < 75 THEN "yellow"
    ELSE IF hueValue < 165 THEN "green"
    ELSE IF hueValue < 195 THEN "cyan"
    ELSE IF hueValue < 255 THEN "blue"
    ELSE IF hueValue < 285 THEN "purple"
    ELSE IF hueValue < 345 THEN "pink"
    ELSE "red"

\* categorizeHexColor(hexColor)
categorizeHexColor(hexColor) ==
    LET hsl == convertHexColorToHsl(hexColor)
    IN IF hsl.saturation < 10 THEN "neutral"
       ELSE getHueCategoryFromValue(hsl.hue)

MaxHue == 360

\* Two hexadecimal digits of a channel / one digit of the short form.
ChannelDigits ==
    {<<"0", "0">>, <<"0", "1">>, <<"4", "0">>, <<"7", "8">>, <<"8", "0">>, <<"f", "5">>,
     <<"f", "f">>}
ShortDigits == {"0", "8", "f"}

HexColors ==
    {<<"#">> \o r \o g \o b : r \in ChannelDigits, g \in ChannelDigits, b \in ChannelDigits}
    \cup {<<"#", r, g, b>> : r \in ShortDigits, g \in ShortDigits, b \in ShortDigits}

ColorInputs ==
    {[function |-> "getHueCategoryFromValue", hue |-> h, hex |-> <<>>] : h \in 0..MaxHue}
    \cup {[function |-> "categorizeHexColor", hue |-> 0, hex |-> c] : c \in HexColors}
    \cup {[function |-> "convertHexColorToHsl", hue |-> 0, hex |-> c] : c \in HexColors}

InitColors ==
    /\ fpc = "call"
    /\ fin \in ColorInputs
    /\ fout = <<>>
    /\ IdleOrch
    /\ IdleWatch
    /\ IdleGen
    /\ IdleDiff
    /\ IdleVal
    /\ IdleBundle

GetHueCategoryFromValue ==
    /\ fpc = "call"
    /\ fin.function = "getHueCategoryFromValue"
    /\ fout' = getHueCategoryFromValue(fin.hue)
    /\ fpc' = "return"
    /\ UNCHANGED fin
    /\ UNCHANGED restOfFn

CategorizeHexColor ==
    /\ fpc = "call"
    /\ fin.function = "categorizeHexColor"
    /\ fout' = categorizeHexColor(fin.hex)
    /\ fpc' = "return"
    /\ UNCHANGED fin
    /\ UNCHANGED restOfFn

ConvertHexColorToHsl ==
    /\ fpc = "call"
    /\ fin.function = "convertHexColorToHsl"
    /\ fout' = convertHexColorToHsl(fin.hex)
    /\ fpc' = "return"
    /\ UNCHANGED fin
    /\ UNCHANGED restOfFn

NextColors ==
    \/ GetHueCategoryFromValue
    \/ CategorizeHexColor
    \/ ConvertHexColorToHsl

SpecColors == InitColors /\ [][NextColors]_vars

\* The hue ranges of the categories: [from, to) for each, red having two.
HueRanges ==
    {[category |-> "red", from |-> 345, to |-> 361],
     [category |-> "red", from |-> 0, to |-> 15],
     [category |-> "orange", from |-> 15, to |-> 45],
     [category |-> "yellow", from |-> 45, to |-> 75],
     [category |-> "green", from |-> 75, to |-> 165],
     [category |-> "cyan", from |-> 165, to |-> 195],
     [category |-> "blue", from |-> 195, to |-> 255],
     [category |-> "purple", from |-> 255, to |-> 285],
     [category |-> "pink", from |-> 285, to |-> 345]}

RangesHolding(h) == {r \in HueRanges : r.from <= h /\ h < r.to}

\* C18: getHueCategoryFromValue gives every integer hue in [0,360] the
\* category of the one range that holds it (red [345,360] and [0,15),
\* orange [15,45), yellow [45,75), green [75,165), cyan [165,195), blue
\* [195,255), purple [255,285), pink [285,345)), and categorizeHexColor
\* gives neutral whenever the saturation is below 10, whatever the hue.
C18_HueCategoriesAndNeutral ==
    fpc = "return" =>
        /\ fin.function = "getHueCategoryFromValue" =>
              /\ Cardinality(RangesHolding(fin.hue)) = 1
              /\ \A r \in RangesHolding(fin.hue) : fout = r.category
        /\ (/\ fin.function = "categorizeHexColor"
            /\ convertHexColorToHsl(fin.hex).saturation < 10) => fout = "neutral"

\* C18 witness: the hue at the boundary 15 has been classified, as orange.
C18_Witness ==
    /\ fpc = "return"
    /\ fin.function = "getHueCategoryFromValue"
    /\ fin.hue = 15
    /\ fout = "orange"

\* A colour that is not grey, has a saturation below 10 and a hue outside
\* the red range has been classified as neutral.
LowSaturationReached ==
    /\ fpc = "return"
    /\ fin.function = "categorizeHexColor"
    /\ convertHexColorToHsl(fin.hex).saturation \in 1..9
    /\ convertHexColorToHsl(fin.hex).hue \in 15..344
    /\ fout = "neutral"

\* The conversion of a six-digit hex colour has returned.
SixDigitsConverted ==
    /\ fpc = "return"
    /\ fin.function = "convertHexColorToHsl"
    /\ Len(StripHash(fin.hex)) = 6

\* Saturation and lightness of every converted colour are within [0, 100].
SaturationAndLightnessInRange ==
    SixDigitsConverted =>
        /\ fout.saturation \in 0..100
        /\ fout.lightness \in 0..100

\* C28: for every six-digit hex colour convertHexColorToHsl returns an
\* integer hue in [0, 360), 360 never being returned, and a saturation and
\* a lightness in [0, 100].
C28_HslRanges ==
    SixDigitsConverted =>
        /\ fout.hue \in 0..359
        /\ fout.saturation \in 0..100
        /\ fout.lightness \in 0..100

\* The conversion of #ff0001 has returned hue 360.
Hue360Returned ==
    /\ SixDigitsConverted
    /\ fin.hex = <<"#", "f", "f", "0", "0", "0", "1">>
    /\ fout.hue = 360

(***************************************************************************)
(* Part 9: the bundle command, src/cli.js runBundlePipeline.  Each step is *)
(* a child process started by runScriptWithOutput and awaited; the history *)
(* blog records every spawn and every close or error of a child.           *)
(***************************************************************************)
\* The five awaited calls of runBundlePipeline, in program order.
bundleSteps ==
    <<[command |-> "compile", args |-> <<"--global">>, directory |-> TRUE, optional |-> FALSE],
      [command |-> "compile", args |-> <<"--components">>, directory |-> TRUE, optional |-> FALSE],
      [command |-> "tokens", args |-> <<"--all">>, directory |-> FALSE, optional |-> FALSE],
      [command |-> "diff", args |-> <<>>, directory |-> FALSE, optional |-> TRUE],
      [command |-> "validate", args |-> <<>>, directory |-> FALSE, optional |-> FALSE]>>

\* hasFlag(argv, flags)
hasFlag(arguments, flags) == \E i \in 1..Len(arguments) : arguments[i] \in flags

\* The exit codes a child closes with.
ChildCodes == {0, 1, 2}

BundleDirectories == {".", "./src"}
BundlePassArguments ==
    {<<>>, <<"--quiet">>, <<"-Q", "--strict">>, <<"--dry-run">>, <<"--strict">>}

\* The extraArguments of the step's runScriptWithOutput call
StepArguments(step, parsed) ==
    bundleSteps[step].args
        \o (IF bundleSteps[step].directory THEN <<parsed.directory>> ELSE <<>>)
        \o parsed.passArguments

InitBundle ==
    /\ bpc = "pipeline"
    /\ bargs \in [directory : BundleDirectories, passArguments : BundlePassArguments]
    /\ bstep = 1
    /\ bchild = 0
    /\ blog = <<>>
    /\ bexit = Running
    /\ IdleOrch
    /\ IdleWatch
    /\ IdleGen
    /\ IdleDiff
    /\ IdleFn
    /\ IdleVal

\* The promise of the awaited step resolved (or the diff step's rejection
\* was caught by the inner try): the next step, or the end of main.
StepDone ==
    IF bstep = Len(bundleSteps)
    THEN /\ bpc' = "exited"
         /\ bexit' = 0
         /\ UNCHANGED bstep
    ELSE /\ bstep' = bstep + 1
         /\ UNCHANGED <<bpc, bexit>>

\* The promise of the awaited step rejected: the inner catch for diff, the
\* outer catch with process.exit(1) for every other step.
StepFailed ==
    IF bundleSteps[bstep].optional
    THEN StepDone
    ELSE /\ bpc' = "exited"
         /\ bexit' = 1
         /\ UNCHANGED bstep

\* runScriptWithOutput(command, extraArguments): spawn of the step's child
BundleSpawn ==
    /\ bpc = "pipeline"
    /\ bchild = 0
    /\ bchild' = bstep
    /\ blog' = Append(blog, [event |-> "spawn", step |-> bstep,
                             command |-> bundleSteps[bstep].command,
                             args |-> StepArguments(bstep, bargs),
                             announced |-> ~hasFlag(bargs.passArguments, {"-Q", "--quiet"})])
    /\ UNCHANGED <<bpc, bargs, bstep, bexit>>
    /\ UNCHANGED restOfBundle

\* child.on("close", (code) => ...)
BundleClose ==
    /\ bpc = "pipeline"
    /\ bchild # 0
    /\ \E code \in ChildCodes :
          /\ blog' = Append(blog, [event |-> "close", step |-> bchild,
                                   command |-> bundleSteps[bchild].command,
                                   code |-> code])
          /\ IF code = 0 THEN StepDone ELSE StepFailed
    /\ bchild' = 0
    /\ UNCHANGED bargs
    /\ UNCHANGED restOfBundle

\* child.on("error", (error) => ...)
BundleError ==
    /\ bpc = "pipeline"
    /\ bchild # 0
    /\ blog' = Append(blog, [event |-> "error", step |-> bchild,
                             command |-> bundleSteps[bchild].command,
                             code |-> Running])
    /\ StepFailed
    /\ bchild' = 0
    /\ UNCHANGED bargs
    /\ UNCHANGED restOfBundle

NextBundle ==
    \/ BundleSpawn
    \/ BundleClose
    \/ BundleError

SpecBundle == InitBundle /\ [][NextBundle]_vars

\* The commands of the children the run has started, in the order of their spawns
StartedCommands ==
    LET spawns == SelectSeq(blog, LAMBDA e : e.event = "spawn")
    IN [i \in 1..Len(spawns) |-> spawns[i].command]

RECURSIVE Phases(_)
\* A sequence of commands with each run of the same command taken once
Phases(commands) ==
    IF Len(commands) <= 1 THEN commands
    ELSE IF commands[1] = commands[2] THEN Phases(Tail(commands))
    ELSE <<commands[1]>> \o Phases(Tail(commands))

\* Every child but the first is spawned right after the close or error of
\* the child before it: no two steps overlap.
StepsInSequence ==
    \A i \in 1..Len(blog) :
        blog[i].event = "spawn" =>
            \/ i = 1
            \/ /\ blog[i - 1].event \in {"close", "error"}
               /\ blog[i - 1].step = blog[i].step - 1

\* C19: a bundle run that completes has run the steps scan, compile,
\* tokens, diff and validate in that order (the two compile children
\* counted as the one compile step), each step started only after the
\* previous one had finished.
C19_BundleStepOrder ==
    (bpc = "exited" /\ bexit = 0) =>
        /\ Phases(StartedCommands) = <<"scan", "compile", "tokens", "diff", "validate">>
        /\ StepsInSequence

\* The steps the code does run are strictly sequential, and a completed run
\* has run compile, tokens, diff and validate in that order.
BundleRunsWithoutScan ==
    /\ StepsInSequence
    /\ (bpc = "exited" /\ bexit = 0) =>
          Phases(StartedCommands) = <<"compile", "tokens", "diff", "validate">>

(***************************************************************************)
(* Part 10: resolveVarReferences, src/generators/components.js.  A CSS     *)
(* value is the sequence of its pieces: plain text, or a var() occurrence  *)
(* as the regular expression matches it (its property name and its         *)
(* fallback, "" when it has none).  A result is a sequence of pieces too:  *)
(* an occurrence left in place is the piece itself.                        *)
(***************************************************************************)
PlainText(text) == [kind |-> "text", text |-> text, name |-> "", fallback |-> ""]
VarRef(name, fallback) == [kind |-> "var", text |-> "", name |-> name, fallback |-> fallback]

\* fallback || match
FallbackOrMatch(piece) ==
    IF piece.fallback # "" THEN <<PlainText(piece.fallback)>> ELSE <<piece>>

Replaced(out, visited) == [out |-> out, visited |-> visited]

\* visited.has(propName)
SeenBefore(visited, propName) == propName \in visited

RECURSIVE resolveVarReferences(_, _, _)
\* resolveVarReferences(value, properties, visited): the replaced value and
\* the Set visited as the call leaves it.  The callback of value.replace
\* runs for the occurrences from left to right on the one Set.
resolveVarReferences(value, properties, visited) ==
    IF value = <<>> THEN Replaced(<<>>, visited)
    ELSE LET piece == Head(value)
             first ==
                 IF piece.kind = "text" THEN Replaced(<<piece>>, visited)
                 ELSE IF SeenBefore(visited, piece.name)
                 THEN Replaced(FallbackOrMatch(piece), visited)
                 ELSE IF piece.name \in DOMAIN properties /\ properties[piece.name] # <<>>
                 THEN resolveVarReferences(properties[piece.name], properties,
                                           visited \cup {piece.name})
                 ELSE Replaced(FallbackOrMatch(piece), visited \cup {piece.name})
             rest == resolveVarReferences(Tail(value), properties, first.visited)
         IN Replaced(first.out \o rest.out, rest.visited)

PropertyNames == {"--a", "--b", "--c"}

\* What a custom property may be declared as.
PropertyValues ==
    {<<PlainText("blue")>>, <<PlainText("8px")>>,
     <<VarRef("--a", "")>>, <<VarRef("--b", "")>>, <<VarRef("--c", "")>>,
     <<VarRef("--b", ""), PlainText(" "), VarRef("--c", "")>>}

\* The occurrences a value to resolve is made of; --d is never declared.
Occurrences ==
    {VarRef(n, "") : n \in PropertyNames \cup {"--d"}}
    \cup {VarRef("--a", "red"), VarRef("--d", "red")}

CssValues ==
    {<<o>> : o \in Occurrences}
    \cup {<<o1, PlainText(" "), o2>> : o1 \in Occurrences, o2 \in Occurrences}

InitResolve ==
    /\ fpc = "call"
    /\ fin \in [value : CssValues,
                properties : UNION {[D -> PropertyValues] : D \in SUBSET PropertyNames}]
    /\ fout = <<>>
    /\ IdleOrch
    /\ IdleWatch
    /\ IdleGen
    /\ IdleDiff
    /\ IdleVal
    /\ IdleBundle

ResolveVarReferences ==
    /\ fpc = "call"
    /\ fout' = resolveVarReferences(fin.value, fin.properties, {}).out
    /\ fpc' = "return"
    /\ UNCHANGED fin
    /\ UNCHANGED restOfFn

NextResolve == ResolveVarReferences

SpecResolve == InitResolve /\ [][NextResolve]_vars

\* The property names a value refers to.
NamesIn(value) == {value[i].name : i \in {j \in 1..Len(value) : value[j].kind = "var"}}

RECURSIVE NamesWithin(_, _, _)
\* The names reached from the names S in at most k declarations
NamesWithin(S, properties, k) ==
    IF k = 0 THEN S
    ELSE S \cup NamesWithin(UNION {NamesIn(properties[n]) : n \in S \cap DOMAIN properties},
                            properties, k - 1)

\* The names x's declaration leads to, x itself left out unless it is led back to.
LeadsTo(x, properties) ==
    IF x \in DOMAIN properties
    THEN NamesWithin(NamesIn(properties[x]), properties, Cardinality(PropertyNames))
    ELSE {}

\* x is declared and neither x nor a name its declaration leads to is
\* undeclared or part of a reference cycle.
Resolvable(x, properties) ==
    /\ x \in DOMAIN properties
    /\ x \notin LeadsTo(x, properties)
    /\ \A y \in LeadsTo(x, properties) :
          y \in DOMAIN properties /\ y \notin LeadsTo(y, properties)

RECURSIVE FullyResolved(_, _, _)
\* A value with every occurrence of a declared name replaced by the fully
\* resolved value of the name, each occurrence on its own (depth bounds the
\* nesting)
FullyResolved(value, properties, depth) ==
    IF value = <<>> THEN <<>>
    ELSE (IF Head(value).kind = "var" /\ Head(value).name \in DOMAIN properties /\ depth > 0
          THEN FullyResolved(properties[Head(value).name], properties, depth - 1)
          ELSE <<Head(value)>>)
         \o FullyResolved(Tail(value), properties, depth)

\* C30: resolveVarReferences replaces every var(--x) occurrence of a value,
\* x being declared in the property map and not part of a reference cycle,
\* by the fully resolved value of x, and does so for each occurrence of a
\* value that holds several.
C30_EveryOccurrenceResolved ==
    (/\ fpc = "return"
     /\ \A x \in NamesIn(fin.value) : Resolvable(x, fin.properties)) =>
        fout = FullyResolved(fin.value, fin.properties, Cardinality(PropertyNames))

\* The number of var() occurrences of a value
OccurrencesIn(value) == Cardinality({j \in 1..Len(value) : value[j].kind = "var"})

\* What does hold: a value with a single occurrence of a resolvable name,
\* through declarations of at most one occurrence each (a chain), is
\* replaced by the fully resolved value of the name.
SingleChainResolved ==
    (/\ fpc = "return"
     /\ OccurrencesIn(fin.value) = 1
     /\ \A x \in NamesIn(fin.value) :
           /\ Resolvable(x, fin.properties)
           /\ \A y \in {x} \cup LeadsTo(x, fin.properties) :
                 OccurrencesIn(fin.properties[y]) <= 1) =>
        fout = FullyResolved(fin.value, fin.properties, Cardinality(PropertyNames))

\* "var(--a) var(--a)" with --a declared as blue has been resolved to
\* "blue var(--a)".
SecondOccurrenceLeft ==
    /\ fpc = "return"
    /\ fin.value = <<VarRef("--a", ""), PlainText(" "), VarRef("--a", "")>>
    /\ "--a" \in DOMAIN fin.properties
    /\ fin.properties["--a"] = <<PlainText("blue")>>
    /\ fout = <<PlainText("blue"), PlainText(" "), VarRef("--a", "")>>

====
